---------------------------- MODULE Spec2Model ----------------------------
(***************************************************************************)
(* A model of the quant_backtester core: the execution microstructure      *)
(* simulator, the multi-asset portfolio with its risk state, the           *)
(* moving-average crossover strategy, the metrics and the event loop.      *)
(*                                                                         *)
(* Numbers.  The Python code computes in IEEE doubles.  The model feeds it *)
(* integer-valued inputs and keeps every amount of money as an integer     *)
(* multiple of 1/PriceScale of a currency unit, where PriceScale is the    *)
(* common denominator of the divisions of _fill (0.5 * spread, / 10_000,   *)
(* / impact_volume).  Ratios that the code divides out (avg_cost, the      *)
(* drawdown, the moving averages) are kept as fractions [n, d] and         *)
(* compared by cross-multiplication.  Optional values (None) are the empty *)
(* sequence << >>, a present value v is << v >>.                           *)
(***************************************************************************)
EXTENDS Integers, Sequences, FiniteSets, TLC

VARIABLES
    cfg,          \* the frozen configuration of the run
    now,          \* number of market events fed so far (the timestamp source)
    tick_index,   \* SimulatedExecutionHandler._tick_index
    pending,      \* SimulatedExecutionHandler._pending
    rng,          \* SimulatedExecutionHandler._rng (state of the generator)
    fills,        \* the list returned by the last on_market call
    last_tick,    \* the MarketEvent of the last on_market call (<< >>: none yet)
    next_id,      \* number of orders submitted so far (identity of an order)
    submitted,    \* ghost: the OrderEvent submitted under each identity
    order_fills,  \* ghost: per order identity, the fills it has received
    twin,         \* a second handler built from the same configuration, and
                  \* the list its last on_market call returned
    portfolio,    \* the MultiAssetPortfolio of the run
    strategy,     \* the MovingAverageCrossStrategy of the run
    signal_log,   \* ghost: per symbol, the sides of the signals emitted so far
    stream,       \* the ticks the tick source has yielded to the first run
    run,          \* run_backtest: which execution, its place in the stream,
                  \* the summaries returned, the wall clock
    csv,          \* CSVDataHandler.stream: the file, the sorted frame, the row
                  \* reached, the error raised
    sweep,        \* run_parameter_sweep: the grids, the pair reached, the
                  \* backtests run, the summaries, the inserts, what it returned
    constructed   \* BacktestConfig(...): the outcome of constructing cfg

exec_vars == << tick_index, pending, rng, fills, last_tick, next_id, submitted, order_fills >>
driver_vars == << csv, sweep, constructed >>
run_vars == << stream, run, driver_vars >>
strategy_vars == << strategy, signal_log >>
vars == << cfg, now, exec_vars, twin, portfolio, strategy_vars, run_vars >>

---------------------------------------------------------------------------
(* Bounds of the model                                                     *)

MaxTicks == 3      \* market events fed to the execution simulator
MaxOrders == 2     \* orders submitted to the execution simulator
MaxStrategyTicks == 4  \* market events fed to the strategy alone
MaxRunTicks == 4   \* length of the tick stream of a backtest
MaxLoopTicks == 5  \* ticks of a single pass of the event loop
MantissaBits == 4  \* bits of the significand of the floats of the strategy
MaxFifoOrders == 4 \* orders submitted to one queue
MaxFifoTicks == 4  \* market events of the symbol of that queue
MaxPriorityTicks == 7  \* market events of the queue whose priorities are followed
MaxRerunTicks == 5     \* length of the stream of a backtest that is run again
MaxRiskTicks == 9      \* length of the stream of a backtest under latency
MaxLimitTicks == 2     \* market events fed to a queue of LIMIT orders
MaxStarveOrders == 3   \* orders submitted to the queue that is served for ever
MaxStarveTicks == 20   \* market events that find an order in that queue

Symbols == {"A", "B"}
BUY == "BUY"
SELL == "SELL"
Sides == {BUY, SELL}

None == << >>
Some(v) == << v >>
IsNone(x) == x = << >>
Val(x) == x[1]

Max(a, b) == IF a >= b THEN a ELSE b
Min(a, b) == IF a <= b THEN a ELSE b
Abs(a) == IF a >= 0 THEN a ELSE -a

---------------------------------------------------------------------------
(* events.py                                                               *)

\* Side.sign
SideSign(side) == IF side = BUY THEN 1 ELSE -1

MarketEvent(ts, sym, mid, bid, ask, spread_bps, volume) ==
    [timestamp |-> ts, symbol |-> sym, mid |-> mid, bid |-> bid, ask |-> ask,
     spread_bps |-> spread_bps, volume |-> volume]

\* OrderEvent: a frozen dataclass, no validation of its fields.
OrderEvent(ts, sym, side, qty, order_type, limit_price) ==
    [timestamp |-> ts, symbol |-> sym, side |-> side, quantity |-> qty,
     order_type |-> order_type, limit_price |-> limit_price]

FillEvent(ts, sym, side, qty, price, commission, slippage) ==
    [timestamp |-> ts, symbol |-> sym, side |-> side, quantity |-> qty,
     fill_price |-> price, commission |-> commission, slippage |-> slippage]

---------------------------------------------------------------------------
(* config.py: the value objects, with the ranges their __post_init__       *)
(* accepts.  Rates and probabilities are fractions [n, d] with d > 0.      *)

Frac(n, d) == [n |-> n, d |-> d]

\* mutant: _require_range checks the lower limit only
InUnitRangeLowOnly(f) == 0 <= f.n

\* _require_range(name, value, 0.0, 1.0)
InUnitRange(f) == 0 <= f.n /\ f.n <= f.d

MicrostructureConfigOK(m) ==
    /\ m.latency_events >= 0
    /\ m.default_tick_volume > 0
    /\ InUnitRange(m.max_participation_rate)
    /\ InUnitRange(m.queue_ahead_fraction)
    /\ InUnitRange(m.base_fill_probability)

ExecutionConfigOK(e) ==
    /\ e.default_spread_bps >= 0
    /\ e.impact_bps_per_unit >= 0
    /\ e.impact_volume > 0
    /\ MicrostructureConfigOK(e.micro)

RiskConfigOK(r) ==
    /\ r.max_position_per_symbol > 0
    /\ InUnitRange(r.stop_loss_pct)
    /\ InUnitRange(r.max_drawdown_pct)

\* "not s.strip()": the string is empty or holds only whitespace
IsBlank(s) == s \in {"", " ", "  "}

\* BacktestConfig.__post_init__ and those of its parts, which are constructed
\* (and validated) before the BacktestConfig that holds them
BacktestConfigOK(c) ==
    /\ c.symbols # << >>
    /\ \A i \in 1..Len(c.symbols) : ~IsBlank(c.symbols[i])
    /\ c.initial_cash > 0
    /\ c.trade_quantity > 0
    /\ c.commission_per_trade >= 0
    /\ c.short_window > 0
    /\ c.long_window > 0
    /\ c.short_window < c.long_window
    /\ ~IsBlank(c.csv_path)
    /\ ~IsBlank(c.run_name)
    /\ ~IsBlank(c.out_dir)
    /\ ~IsBlank(c.database_url)
    /\ ExecutionConfigOK(c.execution)
    /\ RiskConfigOK(c.risk)

\* BacktestConfig(**args), and dataclasses.replace, which constructs anew: the
\* frozen object, or no object when __post_init__ raises ValueError
NewBacktestConfig(args) == IF BacktestConfigOK(args) THEN Some(args) ELSE None

\* A BacktestConfig with small values; the specifications vary its fields.
BaseConfig ==
    [run_name |-> "default", symbols |-> << "A", "B" >>, initial_cash |-> 10,
     trade_quantity |-> 2,
     commission_per_trade |-> 1, short_window |-> 1, long_window |-> 2,
     csv_path |-> "data/sample_prices.csv", out_dir |-> "runs",
     database_url |-> "sqlite:///runs/runs.db",
     execution |-> [default_spread_bps |-> 10, impact_bps_per_unit |-> 2,
                    impact_volume |-> 1, rng_seed |-> 1,
                    micro |-> [latency_events |-> 1, default_tick_volume |-> 3,
                               max_participation_rate |-> Frac(1, 2),
                               queue_ahead_fraction |-> Frac(1, 2),
                               base_fill_probability |-> Frac(1, 1)]],
     risk |-> [max_position_per_symbol |-> 4, stop_loss_pct |-> Frac(1, 20),
               max_drawdown_pct |-> Frac(1, 5)]]

---------------------------------------------------------------------------
(* simulated_execution.py                                                  *)

\* The divisor of a basis point, "/ 10_000.0" in _effective_spread and _fill.
BpsDivisor == 10000

\* Amounts of money are integers in units of 1/PriceScale: the common
\* denominator of 0.5 * spread, mid * bps / 10_000 and qty / max(impact_volume, 1).
PriceScale == 2 * BpsDivisor * Max(cfg.execution.impact_volume, 1)
Money(x) == x * PriceScale

\* random.Random(seed): a deterministic generator owned by the handler.  The
\* Mersenne Twister is abstracted to a small full-period congruential
\* generator; a draw u = RngValue/RngModulus lies in [0, 1).
RngModulus == 16
RngSeeded(seed) == seed % RngModulus
RngAdvance(x) == (5 * x + 3) % RngModulus
RngValue(x) == RngAdvance(x)

\* mutant: the generator is seeded from something of the instance (its
\* identity, the time of its construction) instead of rng_seed alone
NewRngPerInstance(inst) == RngSeeded(cfg.execution.rng_seed + inst)

\* SimulatedExecutionHandler.__post_init__: the generator of the inst-th
\* handler constructed from the configuration.
NewRng(inst) == RngSeeded(cfg.execution.rng_seed)

\* _PendingOrder(order, submitted_tick, remaining, commission_charged=False)
PendingOrder(id, order, tick) ==
    [id |-> id, order |-> order, submitted_tick |-> tick,
     remaining |-> order.quantity, commission_charged |-> FALSE]

\* mutant: the entry moved to the end is lost
RotateLosesHead(q) == IF q = << >> THEN q ELSE Tail(q)

\* deque.rotate(-1) and deque.popleft()
Rotate(q) == IF q = << >> THEN q ELSE Append(Tail(q), Head(q))

\* mutant: the head is moved to the end instead of being removed
PopLeftRotates(q) == IF q = << >> THEN q ELSE Append(Tail(q), Head(q))

PopLeft(q) == Tail(q)

\* mutant: the limit is compared with the mid whatever the quote
LimitIsTouchingMid(order, market) ==
    IF IsNone(order.limit_price) THEN FALSE
    ELSE IF order.side = BUY THEN Val(order.limit_price) >= market.mid
         ELSE Val(order.limit_price) <= market.mid

\* _limit_is_touching
LimitIsTouching(order, market) ==
    IF IsNone(order.limit_price) THEN FALSE
    ELSE IF order.side = BUY
         THEN LET ref == IF ~IsNone(market.ask) THEN Val(market.ask) ELSE market.mid
              IN  Val(order.limit_price) >= ref
         ELSE LET ref == IF ~IsNone(market.bid) THEN Val(market.bid) ELSE market.mid
              IN  Val(order.limit_price) <= ref

\* _effective_spread, times PriceScale / 2 (half of the spread, in money units)
HalfSpread(market) ==
    IF ~IsNone(market.bid) /\ ~IsNone(market.ask) /\ Val(market.ask) >= Val(market.bid)
    THEN (Val(market.ask) - Val(market.bid)) * BpsDivisor * Max(cfg.execution.impact_volume, 1)
    ELSE LET spread_bps == IF ~IsNone(market.spread_bps) THEN Val(market.spread_bps)
                           ELSE cfg.execution.default_spread_bps
         IN  market.mid * spread_bps * Max(cfg.execution.impact_volume, 1)

\* impact = mid * (impact_bps_per_unit * qty / max(impact_volume, 1)) / 10_000
Impact(market, qty) == 2 * market.mid * cfg.execution.impact_bps_per_unit * qty

\* mutant: the slippage is added whatever the side
FillSideIgnored(order, market, qty, commission) ==
    LET price == Money(market.mid) + (HalfSpread(market) + Impact(market, qty))
    IN  FillEvent(market.timestamp, order.symbol, order.side, qty, price, commission,
                  price - Money(market.mid))

\* _fill
Fill(order, market, qty, commission) ==
    LET price == Money(market.mid) + SideSign(order.side) * (HalfSpread(market) + Impact(market, qty))
    IN  FillEvent(market.timestamp, order.symbol, order.side, qty, price, commission,
                  price - Money(market.mid))

\* mutant: the participation rate is not applied to the tick's volume
MaxFillThisTickFullVolume(market) ==
    IF ~IsNone(market.volume) THEN Val(market.volume)
    ELSE cfg.execution.micro.default_tick_volume

\* mutant: a volume of 0 counts as a missing volume (volume or default)
MaxFillThisTickZeroIsMissing(market) ==
    LET tick_volume == IF ~IsNone(market.volume) /\ Val(market.volume) # 0
                       THEN Val(market.volume)
                       ELSE cfg.execution.micro.default_tick_volume
        rate == cfg.execution.micro.max_participation_rate
    IN  Max(0, (tick_volume * rate.n) \div rate.d)

\* max_fill_this_tick = int(max(0.0, tick_volume * max_participation_rate))
MaxFillThisTick(market) ==
    LET tick_volume == IF ~IsNone(market.volume) THEN Val(market.volume)
                       ELSE cfg.execution.micro.default_tick_volume
        rate == cfg.execution.micro.max_participation_rate
    IN  Max(0, (tick_volume * rate.n) \div rate.d)

\* self._rng.random() > p_fill, with
\* p_fill = base_fill_probability * (1.0 - queue_ahead_fraction)
DrawFails(x) ==
    LET b == cfg.execution.micro.base_fill_probability
        a == cfg.execution.micro.queue_ahead_fraction
    IN  RngValue(x) * b.d * a.d > b.n * (a.d - a.n) * RngModulus

\* mutant: an order of any type is subject to the draw
DrawsForFillAnyType(order) == TRUE

\* if pending.order.order_type == "LIMIT": ... self._rng.random()
DrawsForFill(order) == order.order_type = "LIMIT"

\* mutant: the commission is charged on every fill
CommissionOfEveryFill(p) == Money(cfg.commission_per_trade)

\* commission = 0.0 if pending.commission_charged else self.commission_per_trade
CommissionOf(p) == IF p.commission_charged THEN 0 ELSE Money(cfg.commission_per_trade)

\* mutant: the fill ignores the capacity left in the tick
FillQtyWholeOrder(p, remaining_capacity) == p.remaining

\* fill_qty = min(pending.remaining, remaining_capacity)
FillQty(p, remaining_capacity) == Min(p.remaining, remaining_capacity)

\* mutant: a completed entry is rotated like a partial one instead of popped
AfterFillNeverPops(q, p2) == Rotate(<< p2 >> \o Tail(q))

\* remaining <= 0: popleft; else the partially filled entry moves to the end
AfterFill(q, p2) ==
    IF p2.remaining <= 0 THEN PopLeft(q) ELSE Rotate(<< p2 >> \o Tail(q))

\* ghost: the loop's state as an iteration finds it
Snapshot(s) == [q |-> s.q, cap |-> s.cap, rng |-> s.rng, nfills |-> Len(s.fills)]

\* The body of "for _ in range(len(q))" of on_market: n iterations are left,
\* s = [q, cap, rng, fills, log, trace] is the loop's state; log records, for
\* the ghost history, the identity of the order of each fill, and trace the
\* state each iteration started from.
RECURSIVE ProcessQueue(_, _, _, _)
Iteration(s, n, tick, market) ==
    LET p == Head(s.q) IN
    IF tick - p.submitted_tick < cfg.execution.micro.latency_events
    THEN ProcessQueue([s EXCEPT !.q = Rotate(s.q)], n - 1, tick, market)
    ELSE IF s.cap <= 0 THEN s
    ELSE IF p.order.order_type = "LIMIT" /\ IsNone(p.order.limit_price)
    THEN ProcessQueue([s EXCEPT !.q = PopLeft(s.q)], n - 1, tick, market)
    ELSE IF p.order.order_type = "LIMIT" /\ ~LimitIsTouching(p.order, market)
    THEN ProcessQueue([s EXCEPT !.q = Rotate(s.q)], n - 1, tick, market)
    ELSE IF DrawsForFill(p.order) /\ DrawFails(s.rng)
    THEN ProcessQueue([s EXCEPT !.q = Rotate(s.q), !.rng = RngAdvance(s.rng)],
                      n - 1, tick, market)
    ELSE
    LET r == IF DrawsForFill(p.order) THEN RngAdvance(s.rng) ELSE s.rng
        fill_qty == FillQty(p, s.cap)
    IN
    IF fill_qty <= 0 THEN [s EXCEPT !.rng = r]
    ELSE
    LET fill == Fill(p.order, market, fill_qty, CommissionOf(p))
        p2 == [p EXCEPT !.commission_charged = TRUE, !.remaining = p.remaining - fill_qty]
    IN  ProcessQueue([q |-> AfterFill(s.q, p2), cap |-> s.cap - fill_qty, rng |-> r,
                      fills |-> Append(s.fills, fill), log |-> Append(s.log, p.id),
                      trace |-> s.trace],
                     n - 1, tick, market)

ProcessQueue(s, n, tick, market) ==
    IF n = 0 THEN s
    ELSE Iteration([s EXCEPT !.trace = Append(@, Snapshot(s))], n, tick, market)

\* on_market of the handler h = [tick_index, pending, rng]: the handler it
\* leaves, the fills it returns and (ghost) the order of each fill.
OnMarketOf(h, market) ==
    LET tick == h.tick_index[market.symbol] + 1
        q == h.pending[market.symbol]
        s0 == [q |-> q, cap |-> MaxFillThisTick(market), rng |-> h.rng,
               fills |-> << >>, log |-> << >>, trace |-> << >>]
        s == IF q = << >> THEN s0 ELSE ProcessQueue(s0, Len(q), tick, market)
    IN  [tick_index |-> [h.tick_index EXCEPT ![market.symbol] = tick],
         pending |-> [h.pending EXCEPT ![market.symbol] = s.q],
         rng |-> s.rng, fills |-> s.fills, log |-> s.log,
         trace |-> Append(s.trace, Snapshot(s))]

\* mutant: submit stamps the entry with the tick to come
SubmitOfNextTick(h, id, order) ==
    [h EXCEPT !.pending[order.symbol] =
                  Append(@, PendingOrder(id, order, h.tick_index[order.symbol] + 1))]

\* mutant: submit refuses an order with a non-positive quantity and a LIMIT
\* order without a limit_price
SubmitOfValidated(h, id, order) ==
    IF order.quantity <= 0 \/ (order.order_type = "LIMIT" /\ IsNone(order.limit_price))
    THEN h
    ELSE [h EXCEPT !.pending[order.symbol] =
                       Append(@, PendingOrder(id, order, h.tick_index[order.symbol]))]

\* submit on the handler h; id is the (ghost) identity of the new entry
SubmitOf(h, id, order) ==
    [h EXCEPT !.pending[order.symbol] =
                  Append(@, PendingOrder(id, order, h.tick_index[order.symbol]))]

\* SimulatedExecutionHandler(commission_per_trade, cfg, rng_seed)
NewHandler(inst) ==
    [tick_index |-> [s \in Symbols |-> 0], pending |-> [s \in Symbols |-> << >>],
     rng |-> NewRng(inst)]

\* the handler of the run, as the variables hold it
Self == [tick_index |-> tick_index, pending |-> pending, rng |-> rng]

\* ghost: append each fill of the call to the history of its order
RECURSIVE LogFills(_, _, _)
LogFills(h, fs, ids) ==
    IF fs = << >> THEN h
    ELSE LogFills([h EXCEPT ![Head(ids)] = Append(@, Head(fs))], Tail(fs), Tail(ids))

\* SimulatedExecutionHandler.on_market
ExecOnMarket(market) ==
    LET r == OnMarketOf(Self, market) IN
    /\ tick_index' = r.tick_index
    /\ pending' = r.pending
    /\ rng' = r.rng
    /\ fills' = r.fills
    /\ last_tick' = Some(market)
    /\ order_fills' = LogFills(order_fills, r.fills, r.log)
    /\ UNCHANGED << next_id, submitted >>

\* SimulatedExecutionHandler.submit
ExecSubmit(order) ==
    /\ pending' = SubmitOf(Self, next_id + 1, order).pending
    /\ next_id' = next_id + 1
    /\ submitted' = Append(submitted, order)
    /\ order_fills' = Append(order_fills, << >>)
    /\ UNCHANGED << tick_index, rng, fills, last_tick >>

\* no second handler is built
NoTwin == << >>

\* no strategy is built, no run is made
NoStrategy == << >>
\* no file is read, no sweep is made, cfg is a constructed BacktestConfig
NoDrivers ==
    /\ csv = << >>
    /\ sweep = << >>
    /\ constructed = << >>

NoRun ==
    /\ strategy = NoStrategy
    /\ signal_log = [s \in Symbols |-> << >>]
    /\ stream = << >>
    /\ run = << >>
    /\ NoDrivers

ExecInit ==
    /\ tick_index = NewHandler(1).tick_index
    /\ pending = NewHandler(1).pending
    /\ rng = NewHandler(1).rng
    /\ fills = << >>
    /\ last_tick = None
    /\ next_id = 0
    /\ submitted = << >>
    /\ order_fills = << >>

---------------------------------------------------------------------------
(* simple_portfolio.py                                                     *)

RECURSIVE Gcd(_, _)
Gcd(a, b) == IF b = 0 THEN a ELSE Gcd(b, a % b)

\* a quotient of two amounts (d > 0), in lowest terms
Quotient(n, d) == LET g == Gcd(Abs(n), d) IN Frac(n \div g, d \div g)

\* Position(quantity=0, avg_cost=0.0)
NewPosition == [quantity |-> 0, avg_cost |-> Frac(0, 1)]

SignedQty(fill) == IF fill.side = BUY THEN fill.quantity ELSE -fill.quantity

\* mutant: a fill that flips the sign keeps the old average cost
UpdateOnFillFlipKeepsCost(pos, fill) ==
    LET signed_qty == SignedQty(fill)
        new_qty == pos.quantity + signed_qty
    IN  IF new_qty = 0 THEN [quantity |-> 0, avg_cost |-> Frac(0, 1)]
        ELSE IF \/ pos.quantity = 0
                \/ (pos.quantity > 0 /\ signed_qty > 0)
                \/ (pos.quantity < 0 /\ signed_qty < 0)
        THEN [quantity |-> new_qty,
              avg_cost |-> Quotient(pos.avg_cost.n * Abs(pos.quantity)
                                      + fill.fill_price * Abs(signed_qty) * pos.avg_cost.d,
                                    pos.avg_cost.d * Abs(new_qty))]
        ELSE [pos EXCEPT !.quantity = new_qty]

\* Position.update_on_fill
UpdateOnFill(pos, fill) ==
    LET signed_qty == SignedQty(fill)
        new_qty == pos.quantity + signed_qty
    IN  IF new_qty = 0 THEN [quantity |-> 0, avg_cost |-> Frac(0, 1)]
        ELSE IF \/ pos.quantity = 0
                \/ (pos.quantity > 0 /\ signed_qty > 0)
                \/ (pos.quantity < 0 /\ signed_qty < 0)
        THEN \* total_cost = avg_cost * abs(quantity) + fill_price * abs(signed_qty)
             [quantity |-> new_qty,
              avg_cost |-> Quotient(pos.avg_cost.n * Abs(pos.quantity)
                                      + fill.fill_price * Abs(signed_qty) * pos.avg_cost.d,
                                    pos.avg_cost.d * Abs(new_qty))]
        ELSE IF (pos.quantity > 0 /\ new_qty > 0) \/ (pos.quantity < 0 /\ new_qty < 0)
        THEN [pos EXCEPT !.quantity = new_qty]
        ELSE [quantity |-> new_qty, avg_cost |-> Frac(fill.fill_price, 1)]

\* MultiAssetPortfolio(initial_cash, risk_cfg) after __post_init__; positions
\* and last_mid are dicts: functions on the symbols entered so far.
NewPortfolio ==
    [cash |-> Money(cfg.initial_cash), positions |-> << >>, last_mid |-> << >>,
     equity_curve |-> << >>, peak_equity |-> Money(cfg.initial_cash),
     equity |-> Money(cfg.initial_cash),
     risk_state |-> [trading_halted |-> FALSE, halt_reason |-> None],
     total_commission |-> 0, total_slippage_cost |-> 0]

\* dict[key] = value
Put(dict, key, value) ==
    [k \in DOMAIN dict \cup {key} |-> IF k = key THEN value ELSE dict[k]]

\* dict.get(key): None when the key is absent
Get(dict, key) == IF key \in DOMAIN dict THEN Some(dict[key]) ELSE None

\* get_position: creates the zero position on first access
WithPosition(pf, symbol) ==
    IF symbol \in DOMAIN pf.positions THEN pf
    ELSE [pf EXCEPT !.positions = Put(pf.positions, symbol, NewPosition)]

RECURSIVE SumOver(_, _)
SumOver(S, f) ==
    IF S = {} THEN 0
    ELSE LET x == CHOOSE x \in S : TRUE IN f[x] + SumOver(S \ {x}, f)

\* _recompute_equity
RecomputeEquity(pf) ==
    LET known == DOMAIN pf.positions \cap DOMAIN pf.last_mid IN
    pf.cash + SumOver(known, [s \in known |->
                                  pf.positions[s].quantity * Money(pf.last_mid[s])])

\* mutant: the fill is valued at its fill price instead of the last mid
EquityAfterFillAtFillPrice(pf, fill, cash_delta, qty_delta) ==
    pf.equity + cash_delta + qty_delta * fill.fill_price

\* on_fill, "Keep equity updated in O(1) when mid price is available":
\* pf is the portfolio with cash and position already updated
EquityAfterFill(pf, fill, cash_delta, qty_delta) ==
    LET mid == Get(pf.last_mid, fill.symbol) IN
    IF IsNone(mid) THEN RecomputeEquity(pf)
    ELSE pf.equity + cash_delta + qty_delta * Money(Val(mid))

\* mutant: the commission is accumulated but not taken from the cash
OnFillCommissionNotPaid(pf0, fill) ==
    LET pf == WithPosition(pf0, fill.symbol)
        pos == pf.positions[fill.symbol]
        old_qty == pos.quantity
        signed_qty == SignedQty(fill)
        cash_delta == -(fill.fill_price * signed_qty)
        pos2 == UpdateOnFill(pos, fill)
        pf2 == [pf EXCEPT !.cash = @ + cash_delta,
                          !.total_commission = @ + fill.commission,
                          !.total_slippage_cost = @ + fill.slippage * signed_qty,
                          !.positions[fill.symbol] = pos2]
    IN  [pf2 EXCEPT !.equity = EquityAfterFill(pf2, fill, cash_delta, pos2.quantity - old_qty)]

\* MultiAssetPortfolio.on_fill
OnFill(pf0, fill) ==
    LET pf == WithPosition(pf0, fill.symbol)
        pos == pf.positions[fill.symbol]
        old_qty == pos.quantity
        signed_qty == SignedQty(fill)
        cash_delta == -(fill.fill_price * signed_qty) - fill.commission
        pos2 == UpdateOnFill(pos, fill)
        pf2 == [pf EXCEPT !.cash = @ + cash_delta,
                          !.total_commission = @ + fill.commission,
                          !.total_slippage_cost = @ + fill.slippage * signed_qty,
                          !.positions[fill.symbol] = pos2]
    IN  [pf2 EXCEPT !.equity = EquityAfterFill(pf2, fill, cash_delta, pos2.quantity - old_qty)]

\* mutant: the previous mid is forgotten
MarkDeltaNoPrev(qty, prev_mid, mid) == qty * Money(mid)

\* mark_to_market: the change of equity
MarkDelta(qty, prev_mid, mid) ==
    IF IsNone(prev_mid) THEN qty * Money(mid) ELSE qty * Money(mid - Val(prev_mid))

\* mutant: the peak follows the equity down
PeakFollowsEquity(peak, equity) == equity

\* self.peak_equity = max(self.peak_equity, equity)
PeakAfter(peak, equity) == Max(peak, equity)

\* dd >= max_drawdown_pct for dd = (peak - equity) / peak, peak > 0
DrawdownReached(peak, equity) ==
    (peak - equity) * cfg.risk.max_drawdown_pct.d >= cfg.risk.max_drawdown_pct.n * peak

\* n / d to k more decimal digits by long division: [q, r] with
\* n * 10^k = q * d + r
RECURSIVE Decimals(_, _, _)
Decimals(n, d, k) ==
    IF k = 0 THEN [q |-> n \div d, r |-> n % d]
    ELSE LET p == Decimals(n, d, k - 1) IN
         [q |-> p.q * 10 + (p.r * 10) \div d, r |-> (p.r * 10) % d]

\* f"{dd:.2%}": dd in hundredths of a percent, rounded half to even
Pct2(n, d) ==
    LET p == Decimals(n, d, 4) IN
    IF 2 * p.r > d \/ (2 * p.r = d /\ p.q % 2 = 1) THEN p.q + 1 ELSE p.q

\* mutant: the halt is recomputed from the current drawdown on every mark
RiskAfterMarkRecomputed(risk, peak, equity) ==
    IF peak > 0 /\ DrawdownReached(peak, equity)
    THEN [trading_halted |-> TRUE,
          halt_reason |-> Some(<< "Max drawdown reached: ", Pct2(peak - equity, peak), "%" >>)]
    ELSE [trading_halted |-> FALSE, halt_reason |-> None]

\* mark_to_market, "max drawdown halt"
RiskAfterMark(risk, peak, equity) ==
    IF peak > 0 /\ DrawdownReached(peak, equity) /\ ~risk.trading_halted
    THEN [trading_halted |-> TRUE,
          halt_reason |-> Some(<< "Max drawdown reached: ", Pct2(peak - equity, peak), "%" >>)]
    ELSE risk

\* MultiAssetPortfolio.mark_to_market
MarkToMarket(pf, symbol, mid) ==
    LET prev_mid == Get(pf.last_mid, symbol)
        pos == Get(pf.positions, symbol)
        qty == IF IsNone(pos) THEN 0 ELSE Val(pos).quantity
        equity == pf.equity + MarkDelta(qty, prev_mid, mid)
        peak == PeakAfter(pf.peak_equity, equity)
    IN  [pf EXCEPT !.last_mid = Put(pf.last_mid, symbol, mid),
                   !.equity = equity,
                   !.equity_curve = Append(@, equity),
                   !.peak_equity = peak,
                   !.risk_state = RiskAfterMark(pf.risk_state, peak, equity)]

\* no portfolio is built
NoPortfolio == << >>

---------------------------------------------------------------------------
(* SpecPortfolio: a portfolio driven by any interleaving of on_fill and    *)
(* mark_to_market calls over two symbols                                   *)
(* (test_property_portfolio_invariants.py).                                *)

MaxFills == 2      \* on_fill calls on the portfolio

\* The fills handed to on_fill; in this specification fills records every one
\* of them, in the order of the calls.

FillInputs(ts) ==
    { FillEvent(ts, sym, x[1], x[2], Money(x[3]), Money(x[4]), Money(x[5]))
      : sym \in Symbols,
        x \in { << BUY, 2, 2, 1, 1 >>, << SELL, 1, 3, 0, -1 >>, << SELL, 3, 2, 1, 0 >>,
                << SELL, 2, 3, 0, 0 >> } }

MarkInputs == { << "A", 1 >>, << "A", 3 >>, << "B", 2 >> }

InitPortfolio ==
    /\ cfg = BaseConfig
    /\ BacktestConfigOK(cfg)
    /\ now = 0
    /\ ExecInit
    /\ twin = NoTwin
    /\ portfolio = NewPortfolio
    /\ NoRun

PortfolioOnFill ==
    /\ next_id < MaxFills
    /\ next_id' = next_id + 1
    /\ \E f \in FillInputs(now) : /\ portfolio' = OnFill(portfolio, f)
                                  /\ fills' = Append(fills, f)
    /\ UNCHANGED << cfg, now, tick_index, pending, rng, last_tick, submitted,
                    order_fills, twin, strategy_vars, run_vars >>

PortfolioMark ==
    /\ now < MaxTicks
    /\ now' = now + 1
    /\ \E m \in MarkInputs : portfolio' = MarkToMarket(portfolio, m[1], m[2])
    /\ UNCHANGED << cfg, exec_vars, twin, strategy_vars, run_vars >>

NextPortfolio == PortfolioOnFill \/ PortfolioMark

SpecPortfolio == InitPortfolio /\ [][NextPortfolio]_vars

---------------------------------------------------------------------------
(* moving_average.py                                                       *)

RECURSIVE SeqToSet(_)
SeqToSet(q) == IF q = << >> THEN {} ELSE {Head(q)} \cup SeqToSet(Tail(q))

\* MovingAverageCrossStrategy.__post_init__ (the windows are validated by
\* BacktestConfigOK)
NewStrategy ==
    LET syms == SeqToSet(cfg.symbols) IN
    [long_prices |-> [s \in syms |-> << >>], short_prices |-> [s \in syms |-> << >>],
     long_sums |-> [s \in syms |-> 0], short_sums |-> [s \in syms |-> 0],
     last_signal |-> [s \in syms |-> None]]

\* deque(maxlen=n).append(x): a full deque drops its leftmost element
AppendBounded(q, x, n) == IF Len(q) = n THEN Append(Tail(q), x) ELSE Append(q, x)

\* The sums and averages of the strategy are Python floats: binary floating
\* point, every operation rounded to the nearest representable value, ties to
\* the even significand.  The model keeps the rule and narrows the significand
\* from 53 bits to MantissaBits, so that rounding happens at the magnitudes of
\* its prices.  A float is a whole number of units of 1/FloatUnit, the least
\* difference the format resolves near zero.
FloatUnit == 2^(MantissaBits + 2)

\* the largest power of two that is at most N / d, and 1 below that
RECURSIVE BinadeOf(_, _)
BinadeOf(N, d) == IF N < 2 * d THEN 1 ELSE 2 * BinadeOf(N, 2 * d)

\* the float nearest to n / d (d > 0), in units of 1/FloatUnit
RoundFloat(n, d) ==
    LET N == Abs(n) * FloatUnit
        ulp == Max(1, BinadeOf(N, d) \div 2^(MantissaBits - 1))
        k == N \div (d * ulp)
        rem == N - k * d * ulp
        up == 2 * rem > d * ulp \/ (2 * rem = d * ulp /\ k % 2 = 1)
        mag == (IF up THEN k + 1 ELSE k) * ulp
    IN  IF n < 0 THEN -mag ELSE mag

\* a + b of two floats that are whole numbers: the rounded sum is whole
FloatAdd(a, b) == RoundFloat(a + b, 1) \div FloatUnit

\* a / b of a float that is a whole number by a window, in units of 1/FloatUnit
FloatDiv(a, b) == RoundFloat(a, b)

\* the running sum after the append: "sum -= q[0]" when the deque is full,
\* then "sum += px"
SumAfterAppend(sum, q, x, n) ==
    FloatAdd(IF Len(q) = n THEN FloatAdd(sum, -Head(q)) ELSE sum, x)

\* mutant: the last emitted side is not consulted
SideAllowedAlways(last, side) == TRUE

\* last != Side.BUY, last != Side.SELL
SideAllowed(last, side) == last # Some(side)

\* the Signal of on_market for the sums after the append (None: no signal)
SignalFor(st, symbol, long_sum, short_sum, long_len) ==
    IF long_len < cfg.long_window THEN None
    ELSE \* short_ma = short_sum / S and long_ma = long_sum / L
         IF FloatDiv(short_sum, cfg.short_window) > FloatDiv(long_sum, cfg.long_window)
            /\ SideAllowed(st.last_signal[symbol], BUY)
         THEN Some(BUY)
         ELSE IF FloatDiv(short_sum, cfg.short_window) < FloatDiv(long_sum, cfg.long_window)
                 /\ SideAllowed(st.last_signal[symbol], SELL)
         THEN Some(SELL)
         ELSE None

\* MovingAverageCrossStrategy.on_market: [strategy, signal], the signal
\* being None or Some(side)
StrategyOnMarket(st, event) ==
    IF event.symbol \notin DOMAIN st.long_prices THEN [strategy |-> st, signal |-> None]
    ELSE
    LET symbol == event.symbol
        px == event.mid
        long_q == AppendBounded(st.long_prices[symbol], px, cfg.long_window)
        long_sum == SumAfterAppend(st.long_sums[symbol], st.long_prices[symbol], px,
                                   cfg.long_window)
        short_q == AppendBounded(st.short_prices[symbol], px, cfg.short_window)
        short_sum == SumAfterAppend(st.short_sums[symbol], st.short_prices[symbol], px,
                                    cfg.short_window)
        signal == SignalFor(st, symbol, long_sum, short_sum, Len(long_q))
    IN  [strategy |-> [long_prices |-> [st.long_prices EXCEPT ![symbol] = long_q],
                       short_prices |-> [st.short_prices EXCEPT ![symbol] = short_q],
                       long_sums |-> [st.long_sums EXCEPT ![symbol] = long_sum],
                       short_sums |-> [st.short_sums EXCEPT ![symbol] = short_sum],
                       last_signal |-> IF IsNone(signal) THEN st.last_signal
                                       ELSE [st.last_signal EXCEPT ![symbol] = signal]],
         signal |-> signal]

\* ghost: the signal log after a call that returned signal
Logged(log, symbol, signal) ==
    IF IsNone(signal) THEN log ELSE [log EXCEPT ![symbol] = Append(@, Val(signal))]

---------------------------------------------------------------------------
(* SpecStrategy: the strategy fed any tick sequence over its symbols and a *)
(* symbol it may not know; stream records the events fed, in order.        *)

StrategyConfigs ==
    { [BaseConfig EXCEPT !.symbols = syms, !.short_window = w[1], !.long_window = w[2]]
      : syms \in { << "A" >>, << "A", "B" >> },
        w \in { << 1, 2 >>, << 1, 3 >>, << 2, 3 >> } }

\* the mids: small prices, and one at which adding a small price rounds
StrategyTicks(ts) ==
    { MarketEvent(ts, sym, mid, None, None, None, None) :
        sym \in Symbols, mid \in 1..3 \cup {2^MantissaBits} }

InitStrategy ==
    /\ cfg \in StrategyConfigs
    /\ BacktestConfigOK(cfg)
    /\ now = 0
    /\ ExecInit
    /\ twin = NoTwin
    /\ portfolio = NoPortfolio
    /\ strategy = NewStrategy
    /\ signal_log = [s \in Symbols |-> << >>]
    /\ stream = << >>
    /\ run = << >>
    /\ NoDrivers

StrategyTick ==
    /\ now < MaxStrategyTicks
    /\ now' = now + 1
    /\ \E m \in StrategyTicks(now + 1) :
          LET r == StrategyOnMarket(strategy, m) IN
          /\ strategy' = r.strategy
          /\ signal_log' = Logged(signal_log, m.symbol, r.signal)
          /\ stream' = Append(stream, m)
    /\ UNCHANGED << cfg, exec_vars, twin, portfolio, run, driver_vars >>

NextStrategy == StrategyTick

SpecStrategy == InitStrategy /\ [][NextStrategy]_vars

---------------------------------------------------------------------------
(* simple_portfolio.py, the risk checks the event loop calls               *)

\* mutant: the order's quantity is added to the size of the position
\* whatever its side
CanPlaceOrderUnsigned(pf, symbol, side, qty) ==
    Abs(pf.positions[symbol].quantity) + qty <= cfg.risk.max_position_per_symbol

\* MultiAssetPortfolio.can_place_order, on the portfolio get_position left
CanPlaceOrder(pf, symbol, side, qty) ==
    LET proposed == pf.positions[symbol].quantity + (IF side = BUY THEN qty ELSE -qty)
    IN  Abs(proposed) <= cfg.risk.max_position_per_symbol

\* mutant: the stop of a short position is put under its cost, like the
\* stop of a long one
CheckStopLossShortStopBelow(pf, symbol) ==
    LET pos == Get(pf.positions, symbol)
        mid == Get(pf.last_mid, symbol)
        slp == cfg.risk.stop_loss_pct
    IN  IF IsNone(pos) THEN None
        ELSE IF Val(pos).quantity = 0 THEN None
        ELSE IF IsNone(mid) \/ Val(pos).avg_cost.n = 0 THEN None
        ELSE LET avg == Val(pos).avg_cost IN
             IF Val(pos).quantity > 0
                /\ Money(Val(mid)) * avg.d * slp.d <= avg.n * (slp.d - slp.n)
             THEN Some(SELL)
             ELSE IF Val(pos).quantity < 0
                     /\ Money(Val(mid)) * avg.d * slp.d >= avg.n * (slp.d - slp.n)
             THEN Some(BUY)
             ELSE None

\* MultiAssetPortfolio.check_stop_loss: None or Some(side)
CheckStopLoss(pf, symbol) ==
    LET pos == Get(pf.positions, symbol)
        mid == Get(pf.last_mid, symbol)
        slp == cfg.risk.stop_loss_pct
    IN  IF IsNone(pos) THEN None
        ELSE IF Val(pos).quantity = 0 THEN None
        ELSE IF IsNone(mid) \/ Val(pos).avg_cost.n = 0 THEN None
        ELSE LET avg == Val(pos).avg_cost IN
             \* mid <= avg_cost * (1.0 - stop_loss_pct)
             IF Val(pos).quantity > 0
                /\ Money(Val(mid)) * avg.d * slp.d <= avg.n * (slp.d - slp.n)
             THEN Some(SELL)
             \* mid >= avg_cost * (1.0 + stop_loss_pct)
             ELSE IF Val(pos).quantity < 0
                     /\ Money(Val(mid)) * avg.d * slp.d >= avg.n * (slp.d + slp.n)
             THEN Some(BUY)
             ELSE None

---------------------------------------------------------------------------
(* metrics.py                                                              *)

Sgn(a) == IF a > 0 THEN 1 ELSE IF a < 0 THEN -1 ELSE 0

\* the float n / d: a fraction in lowest terms with a positive denominator;
\* a zero denominator (numpy's inf and nan) keeps only the sign of n
Ratio(n, d) ==
    IF d = 0 THEN Frac(Sgn(n), 0)
    ELSE IF d < 0 THEN Quotient(-n, -d) ELSE Quotient(n, d)

\* a <= b for fractions with positive denominators, by the Euclidean
\* algorithm (no product of numerator and denominator is formed)
RECURSIVE FracLeq(_, _, _, _)
FracLeq(n1, d1, n2, d2) ==
    LET q1 == n1 \div d1
        q2 == n2 \div d2
        r1 == n1 % d1
        r2 == n2 % d2
    IN  IF q1 # q2 THEN q1 < q2
        ELSE IF r1 = 0 THEN TRUE
        ELSE IF r2 = 0 THEN FALSE
        ELSE FracLeq(d2, r2, d1, r1)

\* max(a, b) of two fractions
FracMax(a, b) == IF FracLeq(a.n, a.d, b.n, b.d) THEN b ELSE a

\* returns_from_equity
ReturnsFromEquity(equity) ==
    IF Len(equity) < 2 THEN << >>
    ELSE [i \in 1..(Len(equity) - 1) |-> Ratio(equity[i + 1] - equity[i], equity[i])]

\* sharpe_ratio: 0.0 for no return or a zero deviation; otherwise
\* mean / stdev * sqrt(252), kept as the term of its argument
SharpeRatio(daily_returns) ==
    IF daily_returns = << >> THEN Frac(0, 1)
    ELSE IF \A i \in 1..Len(daily_returns) : daily_returns[i] = daily_returns[1]
    THEN Frac(0, 1)
    ELSE [mean_over_stdev_of |-> daily_returns, trading_days |-> 252]

\* mutant: the peak is the current value, not the running maximum
PeakOfDrawdownCurrent(peak, x) == x

\* peak = max(peak, x)
PeakOfDrawdown(peak, x) == Max(peak, x)

\* the loop of max_drawdown over the values left
RECURSIVE DrawdownLoop(_, _, _)
DrawdownLoop(rest, peak0, mdd) ==
    IF rest = << >> THEN mdd
    ELSE LET x == Head(rest)
             peak == PeakOfDrawdown(peak0, x)
             dd == IF peak # 0 THEN Ratio(peak - x, peak) ELSE Frac(0, 1)
         IN  DrawdownLoop(Tail(rest), peak, FracMax(mdd, dd))

\* max_drawdown
MaxDrawdown(equity) ==
    IF equity = << >> THEN Frac(0, 1)
    ELSE DrawdownLoop(equity, equity[1], Frac(0, 1))

---------------------------------------------------------------------------
(* backtest.py: run_backtest                                               *)

\* for f in fills: portfolio.on_fill(f)
RECURSIVE ApplyFills(_, _)
ApplyFills(pf, fs) == IF fs = << >> THEN pf ELSE ApplyFills(OnFill(pf, Head(fs)), Tail(fs))

\* what one iteration of the loop leaves besides the handler's state
LoopResult(pf, st, signal, orders) ==
    [portfolio |-> pf, strategy |-> st, signal |-> signal, orders |-> orders]

\* the call portfolio.check_stop_loss(symbol): the side it returns and the
\* portfolio it leaves
CheckStopLossCall(pf, symbol) == [side |-> CheckStopLoss(pf, symbol), portfolio |-> pf]

\* mutant: the liquidation order carries the signed position
StopLossBranchSignedQuantity(pf3, st, side, market) ==
    IF Abs(pf3.positions[market.symbol].quantity) > 0
    THEN LoopResult(pf3, st, None,
                    << OrderEvent(market.timestamp, market.symbol, side,
                                  pf3.positions[market.symbol].quantity,
                                  "MARKET", None) >>)
    ELSE LoopResult(pf3, st, None, << >>)

\* a stop loss was hit: liquidate the position at market, skip the strategy
StopLossBranch(pf3, st, side, market) ==
    IF Abs(pf3.positions[market.symbol].quantity) > 0
    THEN LoopResult(pf3, st, None,
                    << OrderEvent(market.timestamp, market.symbol, side,
                                  Abs(pf3.positions[market.symbol].quantity),
                                  "MARKET", None) >>)
    ELSE LoopResult(pf3, st, None, << >>)

\* if signal and portfolio.can_place_order(...): execution.submit(order)
OrderBranch(pf3, st, signal, market) ==
    IF CanPlaceOrder(pf3, market.symbol, signal, cfg.trade_quantity)
    THEN LoopResult(pf3, st, Some(signal),
                    << OrderEvent(market.timestamp, market.symbol, signal,
                                  cfg.trade_quantity, "MARKET", None) >>)
    ELSE LoopResult(pf3, st, Some(signal), << >>)

\* signal = strategy.on_market(market)
StrategyBranch(pf2, r, market) ==
    IF IsNone(r.signal) THEN LoopResult(pf2, r.strategy, None, << >>)
    ELSE OrderBranch(WithPosition(pf2, market.symbol), r.strategy, Val(r.signal), market)

\* mutant: the halt does not gate the stop loss and the strategy
RiskAndStrategyNoHaltGate(pf2, st, stop_side, market) ==
    IF ~IsNone(stop_side)
    THEN StopLossBranch(WithPosition(pf2, market.symbol), st, Val(stop_side), market)
    ELSE StrategyBranch(pf2, StrategyOnMarket(st, market), market)

\* the loop body after the fills: halt check, stop loss, strategy
RiskAndStrategy(pf2, st, stop_side, market) ==
    IF pf2.risk_state.trading_halted THEN LoopResult(pf2, st, None, << >>)
    ELSE IF ~IsNone(stop_side)
    THEN StopLossBranch(WithPosition(pf2, market.symbol), st, Val(stop_side), market)
    ELSE StrategyBranch(pf2, StrategyOnMarket(st, market), market)

\* the loop body after stop_side = portfolio.check_stop_loss(market.symbol)
AfterStopCheck(checked, st, market) ==
    RiskAndStrategy(checked.portfolio, st, checked.side, market)

\* mutant: the fills of a halted portfolio are not applied
ApplyFillsUnlessHalted(pf, fs) ==
    IF pf.risk_state.trading_halted THEN pf
    ELSE IF fs = << >> THEN pf ELSE ApplyFills(OnFill(pf, Head(fs)), Tail(fs))

\* the fills of the tick, applied to the marked portfolio pf1
FillsApplied(pf1, fs) == ApplyFills(pf1, fs)

\* the loop body after the marking: the fills ex.fills of the handler
AfterMark(pf1, fs, st, market) ==
    AfterStopCheck(CheckStopLossCall(FillsApplied(pf1, fs), market.symbol), st, market)

\* The body of "for market in data.stream()" for a symbol of cfg.symbols,
\* given the fills fs that execution.on_market(market) returns
LoopBody(pf0, fs, st, market) ==
    AfterMark(MarkToMarket(pf0, market.symbol, market.mid), fs, st, market)

\* dt.datetime.now(dt.UTC): the wall clock does not go back
WallClock(last) == {last, last + 1}

\* the dict run_backtest returns
RunSummary(pf, created_at) ==
    LET eq == pf.equity_curve
        final_equity == IF eq # << >> THEN eq[Len(eq)] ELSE Money(cfg.initial_cash)
    IN  [run_name |-> cfg.run_name,
         symbols |-> cfg.symbols,
         short_window |-> cfg.short_window,
         long_window |-> cfg.long_window,
         initial_cash |-> Money(cfg.initial_cash),
         final_equity |-> final_equity,
         total_return |-> Ratio(final_equity - Money(cfg.initial_cash), Money(cfg.initial_cash)),
         sharpe |-> SharpeRatio(ReturnsFromEquity(eq)),
         max_drawdown |-> MaxDrawdown(eq),
         total_commission |-> pf.total_commission,
         total_slippage_cost |-> pf.total_slippage_cost,
         halted |-> pf.risk_state.trading_halted,
         halt_reason |-> pf.risk_state.halt_reason,
         created_at |-> created_at,
         extra |-> [execution |-> cfg.execution, risk |-> cfg.risk]]

\* mutant: the strategy object of the previous call is used again
StrategyOfPreviousRun(previous) == previous

\* strategy = MovingAverageCrossStrategy(...): built anew by every call
StrategyOfRun(previous) == NewStrategy

---------------------------------------------------------------------------
(* SpecRun: run_backtest is executed on a tick stream, and then a second   *)
(* time with the same configuration on the same stream.  The tick source,  *)
(* the database and the log are outside the model; persist is False.       *)

RunConfig(syms, cash, max_position, max_drawdown_pct) ==
    [BaseConfig EXCEPT !.symbols = syms, !.initial_cash = cash,
                       !.execution.micro.default_tick_volume = 4,
                       !.risk.max_position_per_symbol = max_position,
                       !.risk.max_drawdown_pct = max_drawdown_pct]

\* cash that one trade exhausts; a drawdown halt at 20%; no halt before the
\* stop loss; a position cap under the trade quantity
RunConfigs ==
    { RunConfig(<< "A" >>, 1, 4, Frac(1, 5)),
      RunConfig(<< "A", "B" >>, 10, 4, Frac(1, 5)),
      RunConfig(<< "A", "B" >>, 10, 4, Frac(1, 1)),
      RunConfig(<< "A" >>, 10, 1, Frac(1, 5)) }

RunTicks(ts) ==
    { MarketEvent(ts, "A", mid, None, None, None, None) : mid \in 1..3 }
    \cup { MarketEvent(ts, "B", mid, None, None, None, Some(2)) : mid \in {1, 3} }

InitRun ==
    /\ cfg \in RunConfigs
    /\ BacktestConfigOK(cfg)
    /\ now = 0
    /\ ExecInit
    /\ twin = NoTwin
    /\ portfolio = NewPortfolio
    /\ strategy = NewStrategy
    /\ signal_log = [s \in Symbols |-> << >>]
    /\ stream = << >>
    /\ run = [no |-> 1, pos |-> 0, done |-> FALSE, summary |-> None, first |-> None,
              clock |-> 0]
    /\ NoDrivers

\* ghost: the identities and histories of the orders submitted in a step
RECURSIVE SubmitAll(_, _, _)
SubmitAll(h, id, orders) ==
    IF orders = << >> THEN h
    ELSE SubmitAll(SubmitOf(h, id + 1, Head(orders)), id + 1, Tail(orders))

\* the state one iteration leaves: ex is what execution.on_market returned,
\* out the result of the rest of the body, h the handler after the submits
RunCommit(ex, out, h, market) ==
    /\ portfolio' = out.portfolio
    /\ strategy' = out.strategy
    /\ signal_log' = Logged(signal_log, market.symbol, out.signal)
    /\ tick_index' = h.tick_index
    /\ pending' = h.pending
    /\ rng' = h.rng
    /\ fills' = ex.fills
    /\ last_tick' = Some(market)
    /\ next_id' = next_id + Len(out.orders)
    /\ submitted' = submitted \o out.orders
    /\ order_fills' = LogFills(order_fills, ex.fills, ex.log)
                         \o [i \in 1..Len(out.orders) |-> << >>]

RunSubmits(ex, out, market) ==
    RunCommit(ex, out,
              SubmitAll([tick_index |-> ex.tick_index, pending |-> ex.pending,
                         rng |-> ex.rng], next_id, out.orders),
              market)

RunExecuted(ex, market) ==
    RunSubmits(ex, LoopBody(portfolio, ex.fills, strategy, market), market)

\* one iteration of the loop on the tick market
RunStep(market) ==
    IF market.symbol \notin SeqToSet(cfg.symbols)
    THEN UNCHANGED << exec_vars, portfolio, strategy_vars >>
    ELSE RunExecuted(OnMarketOf(Self, market), market)

\* the first execution: the tick source yields one more tick
RunTickFirst ==
    /\ run.no = 1
    /\ ~run.done
    /\ Len(stream) < MaxRunTicks
    /\ now' = now + 1
    /\ \E m \in RunTicks(now + 1) :
          /\ stream' = Append(stream, m)
          /\ RunStep(m)
    /\ UNCHANGED << cfg, twin, run, driver_vars >>

\* the second execution: the tick source yields the same stream again
RunTickReplay ==
    /\ run.no = 2
    /\ ~run.done
    /\ run.pos < Len(stream)
    /\ now' = now + 1
    /\ run' = [run EXCEPT !.pos = @ + 1]
    /\ RunStep(stream[run.pos + 1])
    /\ UNCHANGED << cfg, twin, stream, driver_vars >>

\* the stream is exhausted: the metrics and the summary
RunFinish ==
    /\ ~run.done
    /\ run.no = 2 => run.pos = Len(stream)
    /\ \E t \in WallClock(run.clock) :
          run' = [run EXCEPT !.done = TRUE, !.clock = t,
                             !.summary = Some(RunSummary(portfolio, t))]
    /\ UNCHANGED << cfg, now, exec_vars, twin, portfolio, strategy_vars, stream,
                    driver_vars >>

\* run_backtest is called again with the same configuration
RunAgain ==
    /\ run.no = 1
    /\ run.done
    /\ run' = [run EXCEPT !.no = 2, !.pos = 0, !.done = FALSE, !.first = run.summary,
                          !.summary = None]
    /\ now' = 0
    /\ tick_index' = NewHandler(2).tick_index
    /\ pending' = NewHandler(2).pending
    /\ rng' = NewHandler(2).rng
    /\ fills' = << >>
    /\ last_tick' = None
    /\ next_id' = 0
    /\ submitted' = << >>
    /\ order_fills' = << >>
    /\ portfolio' = NewPortfolio
    /\ strategy' = StrategyOfRun(strategy)
    /\ signal_log' = [s \in Symbols |-> << >>]
    /\ UNCHANGED << cfg, twin, stream, driver_vars >>

NextRun == RunTickFirst \/ RunTickReplay \/ RunFinish \/ RunAgain

SpecRun == InitRun /\ [][NextRun]_vars

Spec == SpecRun

---------------------------------------------------------------------------
(* SpecRerun: run_backtest is executed on a tick stream and then again on  *)
(* the same stream under a configuration that differs in one field: the    *)
(* rng_seed, or latency_events (1 for 0).  twin holds the Fill sequence of *)
(* the execution under way and what the first execution left.              *)

RerunConfig(lat, qty) ==
    [RunConfig(<< "A", "B" >>, 10, 4, Frac(1, 5))
        EXCEPT !.trade_quantity = qty,
               !.execution.micro.latency_events = lat,
               !.execution.micro.base_fill_probability = Frac(1, 2)]

RerunConfigs == { RerunConfig(0, 2), RerunConfig(2, 3) }

\* the configurations of the second execution
RerunVariants(c) ==
    { [c EXCEPT !.execution.rng_seed = seed] : seed \in {2, 7} }
    \cup (IF c.execution.micro.latency_events = 0
          THEN { [c EXCEPT !.execution.micro.latency_events = 1] }
          ELSE {})

RerunTicks(ts) ==
    { MarketEvent(ts, "A", mid, None, None, None, None) : mid \in {1, 3} }
    \cup { MarketEvent(ts, "B", mid, None, None, None, Some(2)) : mid \in {1, 3} }

InitRerun ==
    /\ cfg \in RerunConfigs
    /\ BacktestConfigOK(cfg)
    /\ now = 0
    /\ ExecInit
    /\ twin = [log |-> << >>, first |-> None]
    /\ portfolio = NewPortfolio
    /\ strategy = NewStrategy
    /\ signal_log = [s \in Symbols |-> << >>]
    /\ stream = << >>
    /\ run = [no |-> 1, pos |-> 0, done |-> FALSE, summary |-> None, first |-> None,
              clock |-> 0]
    /\ NoDrivers

\* the first execution: the tick source yields one more tick
RerunTickFirst ==
    /\ run.no = 1
    /\ Len(stream) < MaxRerunTicks
    /\ now' = now + 1
    /\ \E m \in RerunTicks(now + 1) :
          /\ stream' = Append(stream, m)
          /\ RunStep(m)
    /\ twin' = [twin EXCEPT !.log = @ \o fills']
    /\ UNCHANGED << cfg, run, driver_vars >>

\* run_backtest is called again, on the same stream, with one field changed
RerunAgain ==
    /\ run.no = 1
    /\ stream # << >>
    /\ cfg' \in RerunVariants(cfg)
    /\ run' = [run EXCEPT !.no = 2, !.pos = 0]
    /\ twin' = [log |-> << >>,
                first |-> Some([cfg |-> cfg, fills |-> twin.log, portfolio |-> portfolio])]
    /\ now' = 0
    /\ tick_index' = [s \in Symbols |-> 0]
    /\ pending' = [s \in Symbols |-> << >>]
    /\ rng' = RngSeeded(cfg'.execution.rng_seed)
    /\ fills' = << >>
    /\ last_tick' = None
    /\ next_id' = 0
    /\ submitted' = << >>
    /\ order_fills' = << >>
    /\ portfolio' = NewPortfolio
    /\ strategy' = StrategyOfRun(strategy)
    /\ signal_log' = [s \in Symbols |-> << >>]
    /\ UNCHANGED << stream, driver_vars >>

\* the second execution: the tick source yields the same stream again
RerunTickReplay ==
    /\ run.no = 2
    /\ run.pos < Len(stream)
    /\ now' = now + 1
    /\ run' = [run EXCEPT !.pos = @ + 1]
    /\ RunStep(stream[run.pos + 1])
    /\ twin' = [twin EXCEPT !.log = @ \o fills']
    /\ UNCHANGED << cfg, stream, driver_vars >>

NextRerun == RerunTickFirst \/ RerunAgain \/ RerunTickReplay

SpecRerun == InitRerun /\ [][NextRerun]_vars

---------------------------------------------------------------------------
(* SpecRisk: one execution of run_backtest on one symbol whose orders stay *)
(* queued over several ticks: a latency of two events, or a capacity of    *)
(* one unit per tick.  The position cap equals the trade quantity.  twin   *)
(* holds (ghost) the identities of the stop-loss liquidation orders.       *)

RiskConfig(lat, volume, max_drawdown_pct) ==
    [BaseConfig EXCEPT !.symbols = << "A" >>, !.initial_cash = 10,
                       !.trade_quantity = 2,
                       !.execution.micro.latency_events = lat,
                       !.execution.micro.default_tick_volume = volume,
                       !.risk.max_position_per_symbol = 2,
                       !.risk.max_drawdown_pct = max_drawdown_pct]

RiskConfigs ==
    { RiskConfig(2, 4, Frac(1, 1)), RiskConfig(1, 2, Frac(1, 1)),
      RiskConfig(2, 4, Frac(1, 5)) }

RiskTicks(ts) == { MarketEvent(ts, "A", mid, None, None, None, None) : mid \in 1..3 }

InitRisk ==
    /\ cfg \in RiskConfigs
    /\ BacktestConfigOK(cfg)
    /\ now = 0
    /\ ExecInit
    /\ twin = {}
    /\ portfolio = NewPortfolio
    /\ strategy = NewStrategy
    /\ signal_log = [s \in Symbols |-> << >>]
    /\ stream = << >>
    /\ run = [no |-> 1, pos |-> 0, done |-> FALSE, summary |-> None, first |-> None,
              clock |-> 0]
    /\ NoDrivers

\* the tick source yields one more tick; an order submitted while no signal
\* is logged is the liquidation of the stop-loss branch
RiskTick ==
    /\ Len(stream) < MaxRiskTicks
    /\ now' = now + 1
    /\ \E m \in RiskTicks(now + 1) :
          /\ stream' = Append(stream, m)
          /\ RunStep(m)
    /\ twin' = IF signal_log' = signal_log THEN twin \cup ((next_id + 1)..next_id')
               ELSE twin
    /\ UNCHANGED << cfg, run, driver_vars >>

NextRisk == RiskTick

SpecRisk == InitRisk /\ [][NextRisk]_vars

---------------------------------------------------------------------------
(* SpecLoop: one execution of run_backtest on longer tick streams, with    *)
(* one more configuration (three units per order, filled one per tick on   *)
(* symbol B).                                                              *)

LoopConfigs ==
    RunConfigs
    \cup { [RunConfig(<< "A", "B" >>, 10, 4, Frac(1, 5)) EXCEPT !.trade_quantity = 3] }

InitLoop ==
    /\ cfg \in LoopConfigs
    /\ BacktestConfigOK(cfg)
    /\ now = 0
    /\ ExecInit
    /\ twin = NoTwin
    /\ portfolio = NewPortfolio
    /\ strategy = NewStrategy
    /\ signal_log = [s \in Symbols |-> << >>]
    /\ stream = << >>
    /\ run = [no |-> 1, pos |-> 0, done |-> FALSE, summary |-> None, first |-> None,
              clock |-> 0]
    /\ NoDrivers

\* the tick source yields one more tick
LoopTick ==
    /\ ~run.done
    /\ Len(stream) < MaxLoopTicks
    /\ now' = now + 1
    /\ \E m \in RunTicks(now + 1) :
          /\ stream' = Append(stream, m)
          /\ RunStep(m)
    /\ UNCHANGED << cfg, twin, run, driver_vars >>

NextLoop == LoopTick \/ RunFinish

SpecLoop == InitLoop /\ [][NextLoop]_vars

---------------------------------------------------------------------------
(* SpecExec: the execution simulator driven by any sequence of submit and  *)
(* on_market calls.                                                        *)

ExecConfig(lat, rate) ==
    [BaseConfig EXCEPT !.execution.micro.latency_events = lat,
                       !.execution.micro.max_participation_rate = rate]

ExecConfigs ==
    { ExecConfig(0, Frac(0, 1)), ExecConfig(0, Frac(1, 2)),
      ExecConfig(1, Frac(1, 2)), ExecConfig(1, Frac(1, 1)) }

\* The ticks fed to the simulator: symbol A with and without a quote and a
\* volume, symbol B as a second queue.
ExecTicks(ts) ==
    { MarketEvent(ts, "A", 2, None, None, None, None),
      MarketEvent(ts, "A", 2, None, None, None, Some(0)),
      MarketEvent(ts, "A", 3, Some(2), Some(4), None, Some(4)),
      MarketEvent(ts, "B", 2, None, None, Some(0), Some(4)) }

ExecOrders(ts) ==
    { OrderEvent(ts, "A", BUY, 3, "MARKET", None),
      OrderEvent(ts, "A", BUY, 0, "MARKET", None),
      OrderEvent(ts, "A", SELL, 2, "LIMIT", Some(2)),
      OrderEvent(ts, "A", BUY, 1, "LIMIT", None),
      OrderEvent(ts, "B", SELL, 2, "MARKET", None),
      OrderEvent(ts, "B", SELL, -1, "MARKET", None) }

InitExec ==
    /\ cfg \in ExecConfigs
    /\ BacktestConfigOK(cfg)
    /\ now = 0
    /\ ExecInit
    /\ portfolio = NoPortfolio
    /\ NoRun
    /\ twin = NoTwin

Submit ==
    /\ next_id < MaxOrders
    /\ \E o \in ExecOrders(now) : ExecSubmit(o)
    /\ UNCHANGED << cfg, now, twin, portfolio, strategy_vars, run_vars >>

OnMarket ==
    /\ now < MaxTicks
    /\ now' = now + 1
    /\ \E m \in ExecTicks(now + 1) : ExecOnMarket(m)
    /\ UNCHANGED << cfg, twin, portfolio, strategy_vars, run_vars >>

NextExec == Submit \/ OnMarket

SpecExec == InitExec /\ [][NextExec]_vars

---------------------------------------------------------------------------
(* SpecMicro: the same calls as SpecExec under other settings of the       *)
(* microstructure: latency of 0, 1 and 2 events, with and without impact   *)
(* and default spread.                                                     *)

MicroConfig(lat, rate, spread_bps, impact_bps) ==
    [ExecConfig(lat, rate) EXCEPT !.execution.default_spread_bps = spread_bps,
                                  !.execution.impact_bps_per_unit = impact_bps]

MicroConfigs ==
    { MicroConfig(0, Frac(1, 2), 0, 0), MicroConfig(1, Frac(1, 1), 10, 0),
      MicroConfig(2, Frac(1, 1), 0, 2) }

InitMicro ==
    /\ cfg \in MicroConfigs
    /\ BacktestConfigOK(cfg)
    /\ now = 0
    /\ ExecInit
    /\ portfolio = NoPortfolio
    /\ NoRun
    /\ twin = NoTwin

SpecMicro == InitMicro /\ [][NextExec]_vars

---------------------------------------------------------------------------
(* SpecQuote: MARKET orders of both sides against ticks whose spread is    *)
(* wide: a spread_bps of 200% of the mid, and a quote wider than twice the *)
(* mid.  Each of these ticks is one the tick source yields.                *)

QuoteTicks(ts) ==
    { MarketEvent(ts, "A", 2, None, None, None, None),
      MarketEvent(ts, "A", 2, None, None, Some(2 * BpsDivisor), None),
      MarketEvent(ts, "A", 1, Some(1), Some(5), None, None),
      MarketEvent(ts, "B", 3, Some(2), Some(4), None, Some(4)) }

QuoteOrders(ts) ==
    { OrderEvent(ts, "A", BUY, 1, "MARKET", None),
      OrderEvent(ts, "A", SELL, 1, "MARKET", None),
      OrderEvent(ts, "B", SELL, 2, "MARKET", None) }

QuoteSubmit ==
    /\ next_id < MaxOrders
    /\ \E o \in QuoteOrders(now) : ExecSubmit(o)
    /\ UNCHANGED << cfg, now, twin, portfolio, strategy_vars, run_vars >>

QuoteOnMarket ==
    /\ now < MaxTicks
    /\ now' = now + 1
    /\ \E m \in QuoteTicks(now + 1) : ExecOnMarket(m)
    /\ UNCHANGED << cfg, twin, portfolio, strategy_vars, run_vars >>

NextQuote == QuoteSubmit \/ QuoteOnMarket

SpecQuote == InitMicro /\ [][NextQuote]_vars

---------------------------------------------------------------------------
(* SpecLimit: LIMIT orders on both sides, with limits that touch some ticks *)
(* and not others, under fill probabilities of 0, 1/4, 1/2 and 1, with and  *)
(* without latency, and with a capacity of one unit or of the whole volume. *)

LimitConfig(lat, rate, base, ahead, seed) ==
    [ExecConfig(lat, rate) EXCEPT !.execution.micro.base_fill_probability = base,
                                  !.execution.micro.queue_ahead_fraction = ahead,
                                  !.execution.rng_seed = seed]

LimitConfigs ==
    { LimitConfig(0, Frac(1, 2), Frac(1, 1), Frac(1, 2), 1),
      LimitConfig(1, Frac(1, 1), Frac(1, 1), Frac(0, 1), 1),
      LimitConfig(0, Frac(1, 1), Frac(1, 2), Frac(1, 2), 2),
      LimitConfig(0, Frac(1, 1), Frac(0, 1), Frac(0, 1), 13) }

LimitTicks(ts) ==
    { MarketEvent(ts, "A", 2, None, None, None, None),
      MarketEvent(ts, "A", 2, None, None, None, Some(0)),
      MarketEvent(ts, "A", 3, Some(2), Some(4), None, Some(4)),
      MarketEvent(ts, "A", 3, None, Some(4), None, None) }

LimitOrders(ts) ==
    { OrderEvent(ts, "A", BUY, 2, "LIMIT", Some(3)),
      OrderEvent(ts, "A", SELL, 2, "LIMIT", Some(3)),
      OrderEvent(ts, "A", BUY, 1, "LIMIT", None),
      OrderEvent(ts, "A", BUY, 1, "MARKET", None) }

InitLimit ==
    /\ cfg \in LimitConfigs
    /\ BacktestConfigOK(cfg)
    /\ now = 0
    /\ ExecInit
    /\ portfolio = NoPortfolio
    /\ NoRun
    /\ twin = NoTwin

LimitSubmit ==
    /\ next_id < MaxOrders
    /\ \E o \in LimitOrders(now) : ExecSubmit(o)
    /\ UNCHANGED << cfg, now, twin, portfolio, strategy_vars, run_vars >>

LimitOnMarket ==
    /\ now < MaxLimitTicks
    /\ now' = now + 1
    /\ \E m \in LimitTicks(now + 1) : ExecOnMarket(m)
    /\ UNCHANGED << cfg, twin, portfolio, strategy_vars, run_vars >>

NextLimit == LimitSubmit \/ LimitOnMarket

SpecLimit == InitLimit /\ [][NextLimit]_vars

---------------------------------------------------------------------------
(* SpecFifo: one queue of MARKET orders of one or two units, fed ticks     *)
(* whose capacity is one unit or none, with a latency of 0, 1 or 3 events:  *)
(* partial fills, calls that stop for want of capacity, and orders that     *)
(* wait out their latency behind and ahead of older ones.                  *)

FifoConfigs == { ExecConfig(0, Frac(1, 2)), ExecConfig(1, Frac(1, 2)),
                 ExecConfig(3, Frac(1, 2)) }

FifoTicks(ts) ==
    { MarketEvent(ts, "A", 2, None, None, None, None),
      MarketEvent(ts, "A", 2, None, None, None, Some(0)) }

FifoOrders(ts) == { OrderEvent(ts, "A", BUY, qty, "MARKET", None) : qty \in 1..2 }

InitFifo ==
    /\ cfg \in FifoConfigs
    /\ BacktestConfigOK(cfg)
    /\ now = 0
    /\ ExecInit
    /\ portfolio = NoPortfolio
    /\ NoRun
    /\ twin = NoTwin

FifoSubmit ==
    /\ next_id < MaxFifoOrders
    /\ \E o \in FifoOrders(now) : ExecSubmit(o)
    /\ UNCHANGED << cfg, now, twin, portfolio, strategy_vars, run_vars >>

FifoOnMarket ==
    /\ now < MaxFifoTicks
    /\ now' = now + 1
    /\ \E m \in FifoTicks(now + 1) : ExecOnMarket(m)
    /\ UNCHANGED << cfg, twin, portfolio, strategy_vars, run_vars >>

NextFifo == FifoSubmit \/ FifoOnMarket

SpecFifo == InitFifo /\ [][NextFifo]_vars

---------------------------------------------------------------------------
(* SpecPriority: the queue of SpecFifo under a latency of three events,    *)
(* followed over more ticks, until every order has had its first fill.     *)

InitPriority ==
    /\ cfg = ExecConfig(3, Frac(1, 2))
    /\ BacktestConfigOK(cfg)
    /\ now = 0
    /\ ExecInit
    /\ portfolio = NoPortfolio
    /\ NoRun
    /\ twin = NoTwin

PrioritySubmit ==
    /\ next_id < MaxFifoOrders
    /\ \E o \in FifoOrders(now) : ExecSubmit(o)
    /\ UNCHANGED << cfg, now, twin, portfolio, strategy_vars, run_vars >>

PriorityOnMarket ==
    /\ now < MaxPriorityTicks
    /\ now' = now + 1
    /\ \E m \in FifoTicks(now + 1) : ExecOnMarket(m)
    /\ UNCHANGED << cfg, twin, portfolio, strategy_vars, run_vars >>

NextPriority == PrioritySubmit \/ PriorityOnMarket

SpecPriority == InitPriority /\ [][NextPriority]_vars

---------------------------------------------------------------------------
(* SpecStarve: a queue of MARKET orders served for ever by ticks that each *)
(* have a capacity of one or two units, under a latency of 0, 1 or 3        *)
(* events, orders being submitted at any time.  A tick that finds the queue *)
(* empty changes nothing an order can see (submitted_tick moves with        *)
(* tick_index) and is left out, which keeps the states finite; the ticks   *)
(* keep arriving: the on_market action is weakly fair.                     *)

StarveTicks(ts) ==
    { MarketEvent(ts, "A", 2, None, None, None, None),
      MarketEvent(ts, "A", 2, None, None, None, Some(4)) }

InitStarve ==
    /\ cfg \in FifoConfigs
    /\ BacktestConfigOK(cfg)
    /\ now = 0
    /\ ExecInit
    /\ portfolio = NoPortfolio
    /\ NoRun
    /\ twin = NoTwin

StarveSubmit ==
    /\ next_id < MaxStarveOrders
    /\ \E o \in FifoOrders(now) : ExecSubmit(o)
    /\ UNCHANGED << cfg, now, twin, portfolio, strategy_vars, run_vars >>

\* an order is queued when the tick arrives
TickDue == pending["A"] # << >> /\ now < MaxStarveTicks

StarveOnMarket ==
    /\ TickDue
    /\ now' = now + 1
    /\ \E m \in StarveTicks(now + 1) : ExecOnMarket(m)
    /\ UNCHANGED << cfg, twin, portfolio, strategy_vars, run_vars >>

NextStarve == StarveSubmit \/ StarveOnMarket

\* on_market is enabled exactly when TickDue holds, and the steps of
\* NextStarve that advance the clock are its steps; TicksKeepArriving is
\* WF_vars(StarveOnMarket) written out by its definition, without ENABLED
TickArrives == TickDue /\ now' = now + 1

TicksKeepArriving == []<>(~TickDue) \/ []<><<TickArrives>>_vars

SpecStarve == InitStarve /\ [][NextStarve]_vars /\ TicksKeepArriving

---------------------------------------------------------------------------
(* SpecPartial: partial-fill aggregation (test_execution_partial_fills.py).*)
(* latency_events = 0, one MARKET order is submitted to a fresh handler,   *)
(* then the same tick is fed again and again.                              *)

PartialConfigs ==
    { [ExecConfig(0, rate) EXCEPT !.execution.micro.default_tick_volume = 100,
                                  !.execution.micro.queue_ahead_fraction = Frac(0, 1),
                                  !.commission_per_trade = c]
      : rate \in {Frac(1, 2), Frac(1, 1)}, c \in {0, 1} }

PartialQuantities == {1, 2, 3, 5, 120}

PartialTicks(ts) ==
    { MarketEvent(ts, "A", 100, None, None, Some(0), v)
      : v \in {None, Some(0), Some(2), Some(3), Some(100)} }

InitPartial ==
    /\ cfg \in PartialConfigs
    /\ BacktestConfigOK(cfg)
    /\ now = 0
    /\ ExecInit
    /\ portfolio = NoPortfolio
    /\ NoRun
    /\ twin = NoTwin

PartialSubmit ==
    /\ next_id = 0
    /\ \E side \in Sides, q \in PartialQuantities :
          ExecSubmit(OrderEvent(now, "A", side, q, "MARKET", None))
    /\ UNCHANGED << cfg, now, twin, portfolio, strategy_vars, run_vars >>

PartialTick ==
    /\ next_id = 1
    /\ now < MaxTicks
    /\ now' = now + 1
    /\ \E m \in PartialTicks(now + 1) :
          /\ IF IsNone(last_tick) THEN TRUE
             ELSE m = [Val(last_tick) EXCEPT !.timestamp = now + 1]
          /\ ExecOnMarket(m)
    /\ UNCHANGED << cfg, twin, portfolio, strategy_vars, run_vars >>

NextPartial == PartialSubmit \/ PartialTick

SpecPartial == InitPartial /\ [][NextPartial]_vars

---------------------------------------------------------------------------
(* SpecTwin: two handlers built from the same configuration (rng_seed      *)
(* included) receive the same submit and on_market calls.                  *)

TwinConfigs ==
    { [ExecConfig(lat, rate) EXCEPT !.execution.rng_seed = seed]
      : lat \in {0, 1}, rate \in {Frac(1, 2), Frac(1, 1)}, seed \in {1, 7} }

TwinTicks(ts) ==
    { MarketEvent(ts, "A", 2, None, None, None, None),
      MarketEvent(ts, "A", 3, Some(2), Some(4), None, Some(4)) }

TwinOrders(ts) ==
    { OrderEvent(ts, "A", BUY, 3, "MARKET", None),
      OrderEvent(ts, "A", SELL, 2, "LIMIT", Some(2)),
      OrderEvent(ts, "A", BUY, 3, "LIMIT", Some(2)) }

InitTwin ==
    /\ cfg \in TwinConfigs
    /\ BacktestConfigOK(cfg)
    /\ now = 0
    /\ ExecInit
    /\ portfolio = NoPortfolio
    /\ NoRun
    /\ twin = [h |-> NewHandler(2), fills |-> << >>]

TwinSubmit ==
    /\ next_id < MaxOrders
    /\ \E o \in TwinOrders(now) :
          /\ ExecSubmit(o)
          /\ twin' = [twin EXCEPT !.h = SubmitOf(twin.h, next_id + 1, o)]
    /\ UNCHANGED << cfg, now, portfolio, strategy_vars, run_vars >>

TwinOnMarket ==
    /\ now < MaxTicks
    /\ now' = now + 1
    /\ \E m \in TwinTicks(now + 1) :
          /\ ExecOnMarket(m)
          /\ LET r == OnMarketOf(twin.h, m) IN
             twin' = [h |-> [tick_index |-> r.tick_index, pending |-> r.pending,
                             rng |-> r.rng],
                      fills |-> r.fills]
    /\ UNCHANGED << cfg, portfolio, strategy_vars, run_vars >>

NextTwin == TwinSubmit \/ TwinOnMarket

SpecTwin == InitTwin /\ [][NextTwin]_vars

---------------------------------------------------------------------------
(* sweep.py                                                                *)

\* insert_chunk_size = 500
insert_chunk_size == 500

\* itertools.product(short_windows, long_windows): the pairs in row-major
\* order, the first grid outermost
Product(xs, ys) ==
    [k \in 1..(Len(xs) * Len(ys)) |->
        << xs[((k - 1) \div Len(ys)) + 1], ys[((k - 1) % Len(ys)) + 1] >>]

\* replace(cfg, short_window=sw, long_window=lw,
\*         run_name=f"{cfg.run_name}-sw{sw}-lw{lw}"), before __post_init__
ReplaceWindows(c, sw, lw) ==
    [c EXCEPT !.short_window = sw, !.long_window = lw,
              !.run_name = c.run_name \o "-sw" \o ToString(sw) \o "-lw" \o ToString(lw)]

\* the columns of the empty DataFrame
SummaryColumns ==
    << "run_name", "symbols", "short_window", "long_window", "initial_cash",
       "final_equity", "total_return", "sharpe", "max_drawdown", "total_commission",
       "total_slippage_cost", "halted", "halt_reason", "created_at", "extra" >>

\* The dict run_backtest(run_cfg, persist) returns.  The sweep reads
\* total_return and sharpe (to sort) and copies the rest; the metrics of the
\* run are inputs here: total_return is given, nothing was traded.
BacktestResult(run_cfg, persist, total_return) ==
    [run_name |-> run_cfg.run_name,
     symbols |-> run_cfg.symbols,
     short_window |-> run_cfg.short_window,
     long_window |-> run_cfg.long_window,
     initial_cash |-> run_cfg.initial_cash,
     final_equity |-> run_cfg.initial_cash * (1 + total_return),
     total_return |-> total_return,
     sharpe |-> 0,
     max_drawdown |-> 0,
     total_commission |-> 0,
     total_slippage_cost |-> 0,
     halted |-> FALSE,
     halt_reason |-> None,
     created_at |-> 0,
     extra |-> [execution |-> run_cfg.execution, risk |-> run_cfg.risk]]

\* run_to_model: the Run row of a result (created_at is left to the table's
\* default, halted becomes 0 or 1)
RunToModel(result) ==
    [run_name |-> result.run_name,
     symbols |-> result.symbols,
     short_window |-> result.short_window,
     long_window |-> result.long_window,
     initial_cash |-> result.initial_cash,
     final_equity |-> result.final_equity,
     total_return |-> result.total_return,
     sharpe |-> result.sharpe,
     max_drawdown |-> result.max_drawdown,
     total_commission |-> result.total_commission,
     total_slippage_cost |-> result.total_slippage_cost,
     halted |-> IF result.halted THEN 1 ELSE 0,
     halt_reason |-> result.halt_reason,
     extra |-> result.extra]

\* run_parameter_sweep(cfg, short_windows, long_windows) on entry: runs
\* records the calls of run_backtest, inserted the calls of insert_runs_bulk
NewSweep(short_windows, long_windows) ==
    [short_windows |-> short_windows, long_windows |-> long_windows, visited |-> 0,
     runs |-> << >>, results |-> << >>, pending_models |-> << >>, inserted |-> << >>,
     warned |-> FALSE, exported |-> None, returned |-> None, error |-> None]

\* mutant: pairs with sw = lw are not skipped
SkippedOnlyIfOver(sw, lw) == sw > lw

\* if sw >= lw: continue
Skipped(sw, lw) == sw >= lw

\* results.append(...), pending_models.append(...) and the chunked insert
Collected(sw0, run_cfg, result) ==
    LET models == Append(sw0.pending_models, RunToModel(result))
        full == Len(models) >= insert_chunk_size
    IN  [sw0 EXCEPT !.visited = @ + 1,
                    !.runs = Append(@, [cfg |-> run_cfg, persist |-> FALSE]),
                    !.results = Append(@, result),
                    !.pending_models = IF full THEN << >> ELSE models,
                    !.inserted = IF full THEN Append(@, models) ELSE @]

\* df.sort_values(["total_return", "sharpe"], ascending=False): a sort on two
\* keys is a lexsort, which is stable, so rows equal in both keys keep the
\* order of the runs
RowBefore(a, b) ==
    \/ a.total_return > b.total_return
    \/ a.total_return = b.total_return /\ a.sharpe > b.sharpe

InsertByReturn(sorted, row) ==
    LET k == Cardinality({ i \in 1..Len(sorted) : ~RowBefore(row, sorted[i]) })
    IN  SubSeq(sorted, 1, k) \o << row >> \o SubSeq(sorted, k + 1, Len(sorted))

RECURSIVE SortedByReturn(_)
SortedByReturn(results) ==
    IF results = << >> THEN << >>
    ELSE InsertByReturn(SortedByReturn(SubSeq(results, 1, Len(results) - 1)),
                        results[Len(results)])

\* mutant: pd.DataFrame(results) of no result, a frame without columns
EmptyFrameWithoutColumns == [columns |-> << >>, rows |-> << >>]

\* pd.DataFrame(columns=[...])
EmptyFrame == [columns |-> SummaryColumns, rows |-> << >>]

\* pd.DataFrame(results) sorted: the keys of the result dicts are its columns
FrameOf(rows) == [columns |-> SummaryColumns, rows |-> rows]

\* one iteration of the loop over the pairs; outcome is what run_backtest
\* does when it is called: it returns a result or raises
SweepVisited(sw0, outcome) ==
    LET pair == Product(sw0.short_windows, sw0.long_windows)[sw0.visited + 1]
        run_cfg == ReplaceWindows(cfg, pair[1], pair[2])
    IN  IF Skipped(pair[1], pair[2]) THEN [sw0 EXCEPT !.visited = @ + 1]
        ELSE IF ~BacktestConfigOK(run_cfg)
        THEN [sw0 EXCEPT !.error = Some("ValueError: BacktestConfig")]
        ELSE IF outcome.raised
        THEN [sw0 EXCEPT !.runs = Append(@, [cfg |-> run_cfg, persist |-> FALSE]),
                         !.error = Some("run_backtest raised")]
        ELSE Collected(sw0, run_cfg, BacktestResult(run_cfg, FALSE, outcome.total_return))

\* after the loop: the last insert, the frame, the CSV and the return
SweepReturned(sw0, rows) ==
    LET flushed == IF sw0.pending_models # << >>
                   THEN [sw0 EXCEPT !.inserted = Append(@, sw0.pending_models)]
                   ELSE sw0
        df == IF sw0.results = << >> THEN EmptyFrame ELSE FrameOf(rows)
    IN  [flushed EXCEPT !.warned = (sw0.results = << >>),
                        !.exported = Some(df),
                        !.returned = Some(df)]

---------------------------------------------------------------------------
(* SpecSweep: run_parameter_sweep over grids of up to MaxGrid windows,     *)
(* with values that make pairs to skip, pairs to run and pairs whose       *)
(* derived config is refused.                                              *)

MaxGrid == 2

ShortGridValues == { 0, 1, 2 }
LongGridValues == { 1, 2, 3 }

Grids(values) == UNION { [1..n -> values] : n \in 0..MaxGrid }

\* what a call of run_backtest does
BacktestOutcomes ==
    { [raised |-> TRUE, total_return |-> 0] }
    \cup { [raised |-> FALSE, total_return |-> r] : r \in { 0, 1 } }

InitSweep ==
    /\ cfg = BaseConfig
    /\ BacktestConfigOK(cfg)
    /\ now = 0
    /\ ExecInit
    /\ twin = NoTwin
    /\ portfolio = NoPortfolio
    /\ strategy = NoStrategy
    /\ signal_log = [s \in Symbols |-> << >>]
    /\ stream = << >>
    /\ run = << >>
    /\ csv = << >>
    /\ \E sws \in Grids(ShortGridValues), lws \in Grids(LongGridValues) :
          sweep = NewSweep(sws, lws)
    /\ constructed = << >>

SweepPair ==
    /\ IsNone(sweep.error)
    /\ IsNone(sweep.returned)
    /\ sweep.visited < Len(sweep.short_windows) * Len(sweep.long_windows)
    /\ \E outcome \in BacktestOutcomes : sweep' = SweepVisited(sweep, outcome)
    /\ UNCHANGED << cfg, now, exec_vars, twin, portfolio, strategy_vars, stream, run, csv,
                    constructed >>

SweepFinish ==
    /\ IsNone(sweep.error)
    /\ IsNone(sweep.returned)
    /\ sweep.visited = Len(sweep.short_windows) * Len(sweep.long_windows)
    /\ sweep' = SweepReturned(sweep, SortedByReturn(sweep.results))
    /\ UNCHANGED << cfg, now, exec_vars, twin, portfolio, strategy_vars, stream, run, csv,
                    constructed >>

NextSweep == SweepPair \/ SweepFinish

SpecSweep == InitSweep /\ [][NextSweep]_vars

---------------------------------------------------------------------------
(* SpecConfig: construction of the config records from arguments that     *)
(* differ from the defaults in up to two fields, the derivation of a       *)
(* config with other windows (dataclasses.replace), and the start of a     *)
(* run with a config object in hand.  Until a run starts, cfg holds the     *)
(* defaults and no run reads it.                                           *)

ConfigFractions == { Frac(-1, 2), Frac(0, 1), Frac(1, 1), Frac(3, 2) }
ConfigStrings == { "", " ", "x" }

\* the arguments that differ from c in at most one field
ConfigVariants(c) ==
    {c}
    \cup { [c EXCEPT !.symbols = v] : v \in { << >>, << "A", " " >>, << "A" >> } }
    \cup { [c EXCEPT !.initial_cash = v] : v \in {-1, 0} }
    \cup { [c EXCEPT !.trade_quantity = v] : v \in {-1, 0} }
    \cup { [c EXCEPT !.commission_per_trade = v] : v \in {-1, 0} }
    \cup { [c EXCEPT !.short_window = v] : v \in {-1, 0, 2, 3} }
    \cup { [c EXCEPT !.long_window = v] : v \in {-2, 0, 1} }
    \cup { [c EXCEPT !.csv_path = v] : v \in ConfigStrings }
    \cup { [c EXCEPT !.run_name = v] : v \in ConfigStrings }
    \cup { [c EXCEPT !.out_dir = v] : v \in ConfigStrings }
    \cup { [c EXCEPT !.database_url = v] : v \in ConfigStrings }
    \cup { [c EXCEPT !.execution.default_spread_bps = v] : v \in {-1, 0} }
    \cup { [c EXCEPT !.execution.impact_bps_per_unit = v] : v \in {-1, 0} }
    \cup { [c EXCEPT !.execution.impact_volume = v] : v \in {-1, 0} }
    \cup { [c EXCEPT !.execution.micro.latency_events = v] : v \in {-1, 0} }
    \cup { [c EXCEPT !.execution.micro.default_tick_volume = v] : v \in {-1, 0} }
    \cup { [c EXCEPT !.execution.micro.max_participation_rate = v] : v \in ConfigFractions }
    \cup { [c EXCEPT !.execution.micro.queue_ahead_fraction = v] : v \in ConfigFractions }
    \cup { [c EXCEPT !.execution.micro.base_fill_probability = v] : v \in ConfigFractions }
    \cup { [c EXCEPT !.risk.max_position_per_symbol = v] : v \in {-1, 0} }
    \cup { [c EXCEPT !.risk.stop_loss_pct = v] : v \in ConfigFractions }
    \cup { [c EXCEPT !.risk.max_drawdown_pct = v] : v \in ConfigFractions }

ConfigArgs == UNION { ConfigVariants(c) : c \in ConfigVariants(BaseConfig) }

\* the windows a derived config is given
ConfigWindows == 0..3

\* one construction: args are the arguments, ok says whether an object came
\* out of it; config is the object built from the first arguments, derived
\* the last object dataclasses.replace made of it
Attempt(con, args) ==
    [con EXCEPT !.args = args, !.attempted = TRUE,
                !.ok = ~IsNone(NewBacktestConfig(args))]

InitConfig ==
    /\ cfg = BaseConfig
    /\ now = 0
    /\ ExecInit
    /\ twin = NoTwin
    /\ portfolio = NoPortfolio
    /\ strategy = NoStrategy
    /\ signal_log = [s \in Symbols |-> << >>]
    /\ stream = << >>
    /\ run = << >>
    /\ csv = << >>
    /\ sweep = << >>
    /\ \E args \in ConfigArgs :
          constructed = [args |-> args, attempted |-> FALSE, ok |-> FALSE,
                         config |-> None, derived |-> None]

\* cli.py: cfg = BacktestConfig(...)
ConfigConstruct ==
    /\ ~constructed.attempted
    /\ constructed' = [Attempt(constructed, constructed.args)
                         EXCEPT !.config = NewBacktestConfig(constructed.args)]
    /\ UNCHANGED << cfg, now, exec_vars, twin, portfolio, strategy_vars, stream, run, csv,
                    sweep >>

\* sweep.py: run_cfg = replace(cfg, short_window=sw, long_window=lw, run_name=...)
ConfigReplace ==
    /\ ~IsNone(constructed.config)
    /\ run = << >>
    /\ \E sw \in ConfigWindows, lw \in ConfigWindows :
          LET args == ReplaceWindows(Val(constructed.config), sw, lw)
          IN  constructed' = [Attempt(constructed, args)
                                EXCEPT !.derived = NewBacktestConfig(args)]
    /\ UNCHANGED << cfg, now, exec_vars, twin, portfolio, strategy_vars, stream, run, csv,
                    sweep >>

\* run_backtest(cfg) of cli.py, run_backtest(run_cfg) of sweep.py: a run
\* starts with a config object that exists
ConfigRun ==
    /\ run = << >>
    /\ \E c \in { constructed.config, constructed.derived } :
          /\ ~IsNone(c)
          /\ cfg' = Val(c)
    /\ run' = [no |-> 1, pos |-> 0, done |-> FALSE, summary |-> None, first |-> None,
               clock |-> 0]
    /\ UNCHANGED << now, exec_vars, twin, portfolio, strategy_vars, stream, csv, sweep,
                    constructed >>

NextConfig == ConfigConstruct \/ ConfigReplace \/ ConfigRun

SpecConfig == InitConfig /\ [][NextConfig]_vars

---------------------------------------------------------------------------
(* csv_data_handler.py                                                     *)

\* A cell of the frame read by pd.read_csv: a finite number, an infinity, a
\* null (an empty cell, NaN), text that is not a number, or a date.
Num(n) == << "num", n >>
Inf == << "inf" >>
Null == << "null" >>
Text == << "text" >>
Date(day) == << "date", day >>

IsNum(cell) == cell[1] = "num"

Row(date, symbol, mid, bid, ask, spread_bps, volume) ==
    [date |-> date, symbol |-> symbol, mid |-> mid, bid |-> bid, ask |-> ask,
     spread_bps |-> spread_bps, volume |-> volume]

\* required = {"date", "symbol", "mid"}
RequiredColumns == { "date", "symbol", "mid" }
OptionalColumns == { "bid", "ask", "spread_bps", "volume" }

\* pd.to_datetime(..., errors="coerce"): NaT (None) for what is not a date
ToDatetime(cell) == IF cell[1] = "date" THEN Some(cell[2]) ELSE None

\* df.sort_values("date"): the row numbers of the frame in ascending order of
\* date.  The default sort kind (quicksort) is not stable, so rows of equal
\* date come in any order.
SortValues(rows) ==
    { order \in [1..Len(rows) -> 1..Len(rows)] :
        /\ \A i, j \in 1..Len(rows) : i # j => order[i] # order[j]
        /\ \A i, j \in 1..Len(rows) :
              i < j => Val(ToDatetime(rows[order[i]].date))
                         <= Val(ToDatetime(rows[order[j]].date)) }

\* row[i_bid] if has_bid else None
RawOptional(columns, row, name) == IF name \in columns THEN row[name] ELSE Null

\* _to_required_float: the number, or the ValueError it raises
ToRequiredFloat(cell) ==
    IF IsNum(cell) THEN [value |-> cell[2], error |-> None]
    ELSE [value |-> 0, error |-> Some("Invalid mid")]

\* _to_optional_float: None for a null; float("text") raises ValueError
ToOptionalFloat(cell) ==
    IF cell = Null THEN [value |-> None, error |-> None]
    ELSE IF cell = Text THEN [value |-> None, error |-> Some("could not convert string to float")]
    ELSE [value |-> Some(cell), error |-> None]

\* not math.isfinite(x), x <= bound, x < bound on a converted optional value
NotFinite(v) == ~IsNone(v) /\ ~IsNum(Val(v))
AtMost(v, bound) == ~IsNone(v) /\ Val(v)[2] <= bound
Under(v, bound) == ~IsNone(v) /\ Val(v)[2] < bound

\* the finite value of an optional field, as the MarketEvent carries it
FieldOf(v) == IF IsNone(v) THEN None ELSE Some(Val(v)[2])

\* mutant: crossed quotes are let through
QuoteErrorNone(bid, ask) == None

\* "Invalid quote at row ...: ask must be >= bid"
QuoteError(bid, ask) ==
    IF ~IsNone(bid) /\ ~IsNone(ask) /\ Val(ask)[2] < Val(bid)[2]
    THEN Some("Invalid quote") ELSE None

\* the body of the loop of stream() for one row: the error raised, or the
\* MarketEvent yielded
RowEvent(columns, row) ==
    LET mid == ToRequiredFloat(row.mid)
        bid == ToOptionalFloat(RawOptional(columns, row, "bid"))
        ask == ToOptionalFloat(RawOptional(columns, row, "ask"))
        spread_bps == ToOptionalFloat(RawOptional(columns, row, "spread_bps"))
        vol == ToOptionalFloat(RawOptional(columns, row, "volume"))
        raised ==
            IF ~IsNone(mid.error) THEN mid.error
            ELSE IF mid.value <= 0 THEN Some("Invalid mid")
            ELSE IF ~IsNone(bid.error) THEN bid.error
            ELSE IF ~IsNone(ask.error) THEN ask.error
            ELSE IF ~IsNone(spread_bps.error) THEN spread_bps.error
            ELSE IF ~IsNone(vol.error) THEN vol.error
            ELSE IF NotFinite(bid.value) THEN Some("Invalid bid")
            ELSE IF NotFinite(ask.value) THEN Some("Invalid ask")
            ELSE IF AtMost(bid.value, 0) THEN Some("Invalid bid")
            ELSE IF AtMost(ask.value, 0) THEN Some("Invalid ask")
            ELSE IF ~IsNone(QuoteError(bid.value, ask.value))
                 THEN QuoteError(bid.value, ask.value)
            ELSE IF NotFinite(spread_bps.value) THEN Some("Invalid spread_bps")
            ELSE IF Under(spread_bps.value, 0) THEN Some("Invalid spread_bps")
            ELSE IF NotFinite(vol.value) THEN Some("Invalid volume")
            ELSE IF Under(vol.value, 0) THEN Some("Invalid volume")
            ELSE None
    IN  IF ~IsNone(raised) THEN [error |-> raised, event |-> None]
        ELSE [error |-> None,
              event |-> Some(MarketEvent(Val(ToDatetime(row.date)), row.symbol, mid.value,
                                         FieldOf(bid.value), FieldOf(ask.value),
                                         FieldOf(spread_bps.value), FieldOf(vol.value)))]

\* CSVDataHandler(csv_path) before stream() is iterated
NewCsv(columns, rows) ==
    [columns |-> columns, rows |-> rows, frame |-> None, pos |-> 0, error |-> None,
     done |-> FALSE]

\* stream() up to the loop: the error raised, or the frame sorted as order
CsvOpened(c, order) ==
    IF ~(RequiredColumns \subseteq c.columns)
    THEN [c EXCEPT !.error = Some("CSV missing columns")]
    ELSE IF \E i \in 1..Len(c.rows) : IsNone(ToDatetime(c.rows[i].date))
    THEN [c EXCEPT !.error = Some("Invalid date")]
    ELSE [c EXCEPT !.frame = Some(order)]

\* the loop of stream() resumed: the next row raises, is yielded, or the
\* frame is exhausted
CsvResumed(c) ==
    IF ~IsNone(c.error) THEN [csv |-> c, yielded |-> None]
    ELSE IF c.pos = Len(c.rows) THEN [csv |-> [c EXCEPT !.done = TRUE], yielded |-> None]
    ELSE LET r == RowEvent(c.columns, c.rows[Val(c.frame)[c.pos + 1]]) IN
         IF ~IsNone(r.error) THEN [csv |-> [c EXCEPT !.error = r.error], yielded |-> None]
         ELSE [csv |-> [c EXCEPT !.pos = @ + 1], yielded |-> r.event]

---------------------------------------------------------------------------
(* SpecCsv: the consumer of CSVDataHandler.stream() asks for the next tick *)
(* until the generator raises or is exhausted, over files of up to MaxRows *)
(* rows with and without the optional columns.                             *)

MaxRows == 3

CsvColumns ==
    { RequiredColumns \cup OptionalColumns, RequiredColumns,
      { "date", "symbol" } \cup OptionalColumns }

CsvRows ==
    { Row(Date(1), "A", Num(1), Null, Null, Null, Null),
      Row(Date(1), "B", Num(2), Num(1), Num(3), Null, Num(4)),
      Row(Date(2), "A", Num(2), Num(2), Num(2), Num(0), Num(0)),
      Row(Text, "A", Num(1), Null, Null, Null, Null),
      Row(Date(1), "A", Num(0), Null, Null, Null, Null),
      Row(Date(1), "A", Inf, Null, Null, Null, Null),
      Row(Date(1), "A", Null, Null, Null, Null, Null),
      Row(Date(1), "B", Num(2), Num(0), Num(3), Null, Null),
      Row(Date(1), "B", Num(2), Num(1), Inf, Null, Null),
      Row(Date(2), "B", Num(2), Num(3), Num(1), Null, Null),
      Row(Date(1), "A", Num(1), Null, Null, Num(-1), Null),
      Row(Date(2), "A", Num(1), Null, Null, Inf, Null),
      Row(Date(1), "A", Num(1), Null, Null, Null, Num(-1)),
      Row(Date(1), "A", Num(1), Null, Null, Null, Inf),
      Row(Date(1), "A", Num(1), Text, Null, Null, Null) }

CsvFiles ==
    UNION { [1..n -> CsvRows] : n \in 0..MaxRows }

InitCsv ==
    /\ cfg = BaseConfig
    /\ BacktestConfigOK(cfg)
    /\ now = 0
    /\ ExecInit
    /\ twin = NoTwin
    /\ portfolio = NoPortfolio
    /\ strategy = NoStrategy
    /\ signal_log = [s \in Symbols |-> << >>]
    /\ stream = << >>
    /\ run = << >>
    /\ \E columns \in CsvColumns, rows \in CsvFiles : csv = NewCsv(columns, rows)
    /\ sweep = << >>
    /\ constructed = << >>

\* next() on the generator
CsvNext ==
    /\ IsNone(csv.error)
    /\ ~csv.done
    /\ \E order \in SortValues(IF /\ IsNone(csv.frame)
                                    /\ \A i \in 1..Len(csv.rows) :
                                          ~IsNone(ToDatetime(csv.rows[i].date))
                                 THEN csv.rows ELSE << >>) :
          LET opened == IF IsNone(csv.frame) THEN CsvOpened(csv, order) ELSE csv
              r == CsvResumed(opened)
          IN  /\ csv' = r.csv
              /\ stream' = IF IsNone(r.yielded) THEN stream
                            ELSE Append(stream, Val(r.yielded))
    /\ UNCHANGED << cfg, now, exec_vars, twin, portfolio, strategy_vars, run, sweep,
                    constructed >>

NextCsv == CsvNext

SpecCsv == InitCsv /\ [][NextCsv]_vars

---------------------------------------------------------------------------
(* Claims about the execution simulator                                    *)

RECURSIVE SumQuantity(_)
SumQuantity(fs) == IF fs = << >> THEN 0 ELSE Head(fs).quantity + SumQuantity(Tail(fs))

RECURSIVE SumCommission(_)
SumCommission(fs) == IF fs = << >> THEN 0 ELSE Head(fs).commission + SumCommission(Tail(fs))

\* the queued entries (of any symbol) of the order id
QueuedEntries(id) ==
    { << s, i >> \in { << s, i >> \in Symbols \X (1..MaxOrders) : i <= Len(pending[s]) } :
        pending[s][i].id = id }

\* C2: for every order submitted with quantity >= 1, each fill has quantity
\* >= 1, the fills sum to at most order.quantity, a queued entry has
\* remaining = order.quantity - filled so far with 1 <= remaining <=
\* order.quantity, and a completely filled order is no longer queued once the
\* on_market call that completed it has returned.
C2_FillsBoundedByOrder ==
    \A id \in 1..next_id :
        LET o == submitted[id]
            filled == SumQuantity(order_fills[id])
        IN  o.quantity >= 1 =>
              /\ \A k \in 1..Len(order_fills[id]) : order_fills[id][k].quantity >= 1
              /\ filled <= o.quantity
              /\ \A e \in QueuedEntries(id) :
                    LET p == pending[e[1]][e[2]] IN
                    /\ p.remaining = o.quantity - filled
                    /\ 1 <= p.remaining
                    /\ p.remaining <= o.quantity
              /\ (filled = o.quantity => QueuedEntries(id) = {})

\* C2 witness: an order of quantity >= 2 is queued after a partial fill, and
\* another one has been filled completely and has left the queue.
C2_Witness ==
    /\ \E id \in 1..next_id :
          /\ submitted[id].quantity >= 2
          /\ order_fills[id] # << >>
          /\ QueuedEntries(id) # {}
    /\ \E id \in 1..next_id :
          /\ submitted[id].quantity >= 1
          /\ SumQuantity(order_fills[id]) = submitted[id].quantity
          /\ QueuedEntries(id) = {}

\* C3: the first fill of an order carries commission_per_trade, every later
\* fill of it carries 0, so the commissions of a filled order sum to
\* commission_per_trade.
C3_CommissionOncePerOrder ==
    \A id \in 1..next_id :
        LET fs == order_fills[id] IN
        fs # << >> =>
          /\ fs[1].commission = Money(cfg.commission_per_trade)
          /\ \A k \in 2..Len(fs) : fs[k].commission = 0
          /\ SumCommission(fs) = Money(cfg.commission_per_trade)

\* C3 witness: an order filled in three parts over three ticks.
C3_Witness ==
    \E id \in 1..next_id :
        /\ Len(order_fills[id]) >= 3
        /\ cfg.commission_per_trade > 0
        /\ order_fills[id][1].timestamp < order_fills[id][3].timestamp

\* C9: the fills of one on_market call sum to at most
\* floor(tick_volume x max_participation_rate), tick_volume being the tick's
\* volume or default_tick_volume; with max_participation_rate = 0 no fill is
\* ever produced and every queued order keeps its remaining quantity.
C9_ParticipationCap ==
    /\ ~IsNone(last_tick) =>
          LET m == Val(last_tick)
              tick_volume == IF IsNone(m.volume) THEN cfg.execution.micro.default_tick_volume
                             ELSE Val(m.volume)
              rate == cfg.execution.micro.max_participation_rate
          IN  SumQuantity(fills) * rate.d <= tick_volume * rate.n
    /\ cfg.execution.micro.max_participation_rate.n = 0 =>
          /\ fills = << >>
          /\ \A id \in 1..next_id : order_fills[id] = << >>
          /\ \A s \in Symbols : \A i \in 1..Len(pending[s]) :
                pending[s][i].remaining = pending[s][i].order.quantity

\* C9 witness: one call fills two orders and uses the whole capacity of a
\* tick without a volume (default_tick_volume applies).
C9_Witness ==
    /\ ~IsNone(last_tick)
    /\ IsNone(Val(last_tick).volume)
    /\ Len(fills) >= 2
    /\ SumQuantity(fills) = MaxFillThisTick(Val(last_tick))

\* C9 witness of the second half: with rate 0 an order waits through ticks.
C9_WitnessFrozen ==
    /\ cfg.execution.micro.max_participation_rate.n = 0
    /\ \E s \in Symbols : pending[s] # << >> /\ tick_index[s] >= 2

\* ceil(a / b) for b >= 1
CeilDiv(a, b) == (a + b - 1) \div b

\* C10: latency_events = 0, a single MARKET order of quantity Q, k identical
\* ticks of capacity c = floor(volume x max_participation_rate) >= 1 fed so
\* far: the order has received one fill per tick on the first
\* min(k, ceil(Q/c)) ticks, the i-th of quantity min(Q - (i-1)c, c); it is
\* queued exactly while k < ceil(Q/c), and once complete its fills sum to Q.
C10_PartialFillAggregation ==
    (next_id = 1 /\ ~IsNone(last_tick)) =>
        LET m == Val(last_tick)
            v == IF IsNone(m.volume) THEN cfg.execution.micro.default_tick_volume
                 ELSE Val(m.volume)
            rate == cfg.execution.micro.max_participation_rate
            c == (v * rate.n) \div rate.d
            Q == submitted[1].quantity
            k == tick_index["A"]
            n == Min(k, CeilDiv(Q, c))
            fs == order_fills[1]
        IN  c >= 1 =>
              /\ Len(fs) = n
              /\ \A i \in 1..n : /\ fs[i].quantity = Min(Q - (i - 1) * c, c)
                                 /\ fs[i].timestamp = i
              /\ Len(fills) = (IF k <= CeilDiv(Q, c) THEN 1 ELSE 0)
              /\ (pending["A"] # << >>) <=> (k < CeilDiv(Q, c))
              /\ (k >= CeilDiv(Q, c) => SumQuantity(fs) = Q)

\* C10 witness: Q = 120 and c = 50 give the fills 50, 50, 20.
C10_Witness ==
    /\ next_id = 1
    /\ submitted[1].quantity = 120
    /\ Len(order_fills[1]) = 3
    /\ order_fills[1][1].quantity = 50
    /\ order_fills[1][2].quantity = 50
    /\ order_fills[1][3].quantity = 20
    /\ pending["A"] = << >>

\* C6: two handlers built with the same config and rng_seed and driven by
\* the same submit and on_market calls return the same list of fills from
\* every on_market call (same order, quantities, prices, commissions), also
\* when LIMIT orders consume draws of the generator.
C6_SameFillsFromSameSeed ==
    twin # NoTwin => twin.fills = fills

\* C6 witness: both handlers return the same fill of a LIMIT order in a call
\* made after at least two draws, the second of which failed (an order was
\* rotated although its limit touched).
C6_Witness ==
    /\ twin # NoTwin
    /\ twin.fills = fills
    /\ rng # NewRng(1)
    /\ rng # RngAdvance(NewRng(1))
    /\ DrawFails(RngAdvance(NewRng(1)))
    /\ \E k \in 1..Len(fills) : \E id \in 1..next_id :
          /\ submitted[id].order_type = "LIMIT"
          /\ order_fills[id] # << >>
          /\ order_fills[id][Len(order_fills[id])] = fills[k]

---------------------------------------------------------------------------
(* Claims about the portfolio                                              *)

\* C1: after every on_fill and every mark_to_market, in any interleaving,
\* the incrementally maintained equity equals cash plus the sum, over the
\* symbols with a known last_mid, of position.quantity x last_mid; symbols
\* whose mid is unknown contribute 0.
C1_EquityIdentity ==
    portfolio # NoPortfolio =>
        portfolio.equity =
            portfolio.cash
            + SumOver(DOMAIN portfolio.last_mid,
                      [s \in DOMAIN portfolio.last_mid |->
                          IF s \in DOMAIN portfolio.positions
                          THEN portfolio.positions[s].quantity * Money(portfolio.last_mid[s])
                          ELSE 0])

\* C1 witness: A is held at a known mid that has moved, B is held (after a
\* fill that took the recompute path) at a mid still unknown.
C1_Witness ==
    /\ portfolio # NoPortfolio
    /\ "A" \in DOMAIN portfolio.last_mid
    /\ "A" \in DOMAIN portfolio.positions
    /\ portfolio.positions["A"].quantity # 0
    /\ Len(portfolio.equity_curve) >= 2
    /\ "B" \notin DOMAIN portfolio.last_mid
    /\ "B" \in DOMAIN portfolio.positions
    /\ portfolio.positions["B"].quantity # 0
    /\ portfolio.equity # portfolio.cash

\* C5: over any sequence of mark_to_market and on_fill calls peak_equity
\* never decreases, and trading_halted, once true, stays true.
C5_PeakMonotoneHaltLatched ==
    [][portfolio # NoPortfolio =>
          /\ portfolio'.peak_equity >= portfolio.peak_equity
          /\ (portfolio.risk_state.trading_halted => portfolio'.risk_state.trading_halted)]_vars

\* C5 witness: the halt is still set although the drawdown is back under
\* the threshold, and the equity is under the peak.
C5_Witness ==
    /\ portfolio # NoPortfolio
    /\ portfolio.risk_state.trading_halted
    /\ portfolio.equity < portfolio.peak_equity
    /\ ~DrawdownReached(portfolio.peak_equity, portfolio.equity)
    /\ Len(portfolio.equity_curve) >= 2

\* the step is a call of mark_to_market (it appends to the equity curve)
IsMarkStep == Len(portfolio'.equity_curve) = Len(portfolio.equity_curve) + 1

\* the text of a halt reason begins with "Max drawdown reached:"
BeginsWithMaxDrawdown(reason) == ~IsNone(reason) /\ Val(reason)[1] = "Max drawdown reached: "

\* C15: trading_halted becomes true in exactly those mark_to_market calls
\* where it was false and (peak_equity - equity) / peak_equity >=
\* max_drawdown_pct after updating equity and peak; at that moment
\* halt_reason is set to a string beginning with "Max drawdown reached:";
\* halt_reason is null before and never rewritten afterwards.
C15_DrawdownHalt ==
    [][portfolio # NoPortfolio =>
          LET halted == portfolio.risk_state.trading_halted
              peak == portfolio'.peak_equity
              equity == portfolio'.equity
          IN  /\ (~halted /\ portfolio'.risk_state.trading_halted)
                 <=> (/\ IsMarkStep
                      /\ ~halted
                      /\ (peak - equity) * cfg.risk.max_drawdown_pct.d
                             >= cfg.risk.max_drawdown_pct.n * peak)
              /\ (~halted /\ portfolio'.risk_state.trading_halted)
                 => BeginsWithMaxDrawdown(portfolio'.risk_state.halt_reason)
              /\ ~halted => IsNone(portfolio.risk_state.halt_reason)
              /\ halted => portfolio'.risk_state = portfolio.risk_state]_vars

\* C15 witness: the halt was set at one drawdown and a later mark found a
\* different drawdown, still over the threshold; the reason is the first.
C15_Witness ==
    /\ portfolio # NoPortfolio
    /\ portfolio.risk_state.trading_halted
    /\ BeginsWithMaxDrawdown(portfolio.risk_state.halt_reason)
    /\ DrawdownReached(portfolio.peak_equity, portfolio.equity)
    /\ Val(portfolio.risk_state.halt_reason)[2]
           # Pct2(portfolio.peak_equity - portfolio.equity, portfolio.peak_equity)
    /\ portfolio.equity_curve[Len(portfolio.equity_curve)] = portfolio.equity

\* C15 second witness: a fill put the equity under the threshold and no
\* mark has followed: trading is not halted.
C15_WitnessFillDoesNotHalt ==
    /\ portfolio # NoPortfolio
    /\ ~portfolio.risk_state.trading_halted
    /\ IsNone(portfolio.risk_state.halt_reason)
    /\ DrawdownReached(portfolio.peak_equity, portfolio.equity)

\* last_mid <= avg_cost x (1 - stop_loss_pct), and >= avg_cost x (1 + ...)
AtOrUnderLongStop(mid, avg_cost) ==
    Money(mid) * avg_cost.d * cfg.risk.stop_loss_pct.d
        <= avg_cost.n * (cfg.risk.stop_loss_pct.d - cfg.risk.stop_loss_pct.n)
AtOrOverShortStop(mid, avg_cost) ==
    Money(mid) * avg_cost.d * cfg.risk.stop_loss_pct.d
        >= avg_cost.n * (cfg.risk.stop_loss_pct.d + cfg.risk.stop_loss_pct.n)

\* C19: check_stop_loss(sym) returns SELL iff the position is long and
\* last_mid <= avg_cost x (1 - stop_loss_pct), BUY iff the position is short
\* and last_mid >= avg_cost x (1 + stop_loss_pct), and none otherwise, in
\* particular for a flat or absent position, an unknown mid or a zero
\* avg_cost; it changes no portfolio state.
C19_CheckStopLoss ==
    portfolio # NoPortfolio =>
        \A s \in Symbols :
            LET call == CheckStopLossCall(portfolio, s)
                held == s \in DOMAIN portfolio.positions
                known == s \in DOMAIN portfolio.last_mid
                long == held /\ portfolio.positions[s].quantity > 0
                short == held /\ portfolio.positions[s].quantity < 0
            IN  /\ call.side = Some(SELL)
                   <=> (long /\ known
                        /\ AtOrUnderLongStop(portfolio.last_mid[s],
                                             portfolio.positions[s].avg_cost))
                /\ call.side = Some(BUY)
                   <=> (short /\ known
                        /\ AtOrOverShortStop(portfolio.last_mid[s],
                                             portfolio.positions[s].avg_cost))
                /\ call.side \in {None, Some(SELL), Some(BUY)}
                /\ (~held \/ ~known) => call.side = None
                /\ (held /\ portfolio.positions[s].quantity = 0) => call.side = None
                /\ (held /\ portfolio.positions[s].avg_cost.n = 0) => call.side = None
                /\ call.portfolio = portfolio

\* C19 witness: A is long and marked under its stop (SELL), while B is
\* held without a mid (none).
C19_Witness ==
    /\ portfolio # NoPortfolio
    /\ "A" \in DOMAIN portfolio.positions
    /\ portfolio.positions["A"].quantity > 0
    /\ CheckStopLoss(portfolio, "A") = Some(SELL)
    /\ "B" \in DOMAIN portfolio.positions
    /\ portfolio.positions["B"].quantity # 0
    /\ CheckStopLoss(portfolio, "B") = None

\* C19 witness of the other side: A is short and marked over its stop (BUY).
C19_WitnessShort ==
    /\ portfolio # NoPortfolio
    /\ "A" \in DOMAIN portfolio.positions
    /\ portfolio.positions["A"].quantity < 0
    /\ CheckStopLoss(portfolio, "A") = Some(BUY)

\* C19 third witness: a short position whose mid is at or over its cost
\* but under the stop, and a position whose mid is unknown: none for both.
C19_WitnessNone ==
    /\ portfolio # NoPortfolio
    /\ \E s \in DOMAIN portfolio.positions \cap DOMAIN portfolio.last_mid :
          /\ portfolio.positions[s].quantity < 0
          /\ Money(portfolio.last_mid[s]) * portfolio.positions[s].avg_cost.d
                 >= portfolio.positions[s].avg_cost.n
          /\ CheckStopLoss(portfolio, s) = None
    /\ \E s \in DOMAIN portfolio.positions \ DOMAIN portfolio.last_mid :
          /\ portfolio.positions[s].quantity # 0
          /\ CheckStopLoss(portfolio, s) = None

---------------------------------------------------------------------------
(* Claims about the strategy                                               *)

\* C4: for every symbol and every tick sequence, on_market never emits two
\* consecutive signals of the same side: the signals emitted for a symbol
\* strictly alternate between BUY and SELL.
C4_SignalsAlternate ==
    \A s \in Symbols : \A i \in 1..(Len(signal_log[s]) - 1) :
        signal_log[s][i] # signal_log[s][i + 1]

\* C4 witness: after a BUY the short average is again above the long one on
\* a later tick (a second BUY is suppressed), and another symbol or window
\* has alternated; here: A has emitted BUY then SELL then BUY.
C4_Witness ==
    /\ strategy # NoStrategy
    /\ signal_log["A"] = << BUY, SELL, BUY >>

\* C4 second witness: the condition of the last emitted side holds again on
\* a later tick, and nothing is emitted.
C4_WitnessSuppressed ==
    /\ strategy # NoStrategy
    /\ signal_log["A"] = << BUY >>
    /\ Len(strategy.long_prices["A"]) = cfg.long_window
    /\ strategy.long_prices["A"][1] < strategy.long_prices["A"][cfg.long_window]
    /\ FloatDiv(strategy.short_sums["A"], cfg.short_window)
         > FloatDiv(strategy.long_sums["A"], cfg.long_window)
    /\ now >= cfg.long_window + 2

---------------------------------------------------------------------------
(* Claims about the execution simulator, stated over its steps             *)

\* the step is a call of submit / of on_market (SpecExec, SpecMicro)
IsSubmitStep == next_id' = next_id + 1
IsOnMarketStep == now' = now + 1

\* the order id receives a fill in this step
FilledNow(id) == Len(order_fills'[id]) > Len(order_fills[id])

\* the remaining quantities of the first n entries of a queue
RECURSIVE SumRemaining(_, _)
SumRemaining(q, n) == IF n = 0 THEN 0 ELSE q[n].remaining + SumRemaining(q, n - 1)

\* every entry of the queue is a MARKET order with something left to fill
AllOpenMarket(q) ==
    \A i \in 1..Len(q) : q[i].order.order_type = "MARKET" /\ q[i].remaining > 0

\* C11: submit records submitted_tick = the symbol's current tick_index;
\* on_market increments that symbol's tick_index exactly once; an order
\* never receives a fill in an on_market call where tick_index -
\* submitted_tick < latency_events; with latency_events = 1 an order
\* submitted before a tick is fillable on the very next on_market for its
\* symbol (it is filled when the capacity reaches it).
C11_LatencyGating ==
    [][/\ IsSubmitStep =>
            LET o == submitted'[next_id']
                q == pending'[o.symbol]
            IN  /\ Len(q) = Len(pending[o.symbol]) + 1
                /\ q[Len(q)].id = next_id'
                /\ q[Len(q)].submitted_tick = tick_index[o.symbol]
                /\ q[Len(q)].remaining = o.quantity
                /\ tick_index' = tick_index
       /\ IsOnMarketStep =>
            LET m == Val(last_tick')
                q == pending[m.symbol]
            IN  /\ tick_index' = [tick_index EXCEPT ![m.symbol] = @ + 1]
                /\ \A id \in 1..next_id :
                      FilledNow(id) =>
                          \E i \in 1..Len(q) :
                              /\ q[i].id = id
                              /\ tick_index'[m.symbol] - q[i].submitted_tick
                                     >= cfg.execution.micro.latency_events
                /\ \A i \in 1..Len(q) :
                      (/\ cfg.execution.micro.latency_events = 1
                       /\ q[i].submitted_tick = tick_index[m.symbol]
                       /\ AllOpenMarket(q)
                       /\ SumRemaining(q, i - 1) < MaxFillThisTick(m))
                      => FilledNow(q[i].id)]_vars

\* C11 witness: with latency_events = 2 an order submitted after the first
\* tick of its symbol was passed over by the second tick and filled by the
\* third.
C11_Witness ==
    /\ cfg.execution.micro.latency_events = 2
    /\ tick_index["A"] = 3
    /\ next_id >= 1
    /\ submitted[1].symbol = "A"
    /\ Len(order_fills[1]) = 1
    /\ order_fills[1][1].timestamp = 3
    /\ fills # << >>

\* C11 second witness: with latency_events = 1 an order submitted between
\* two ticks of its symbol is filled by the very next tick.
C11_WitnessNextTick ==
    /\ cfg.execution.micro.latency_events = 1
    /\ tick_index["A"] = 2
    /\ next_id = 1
    /\ submitted[1].timestamp = 1
    /\ submitted[1].symbol = "A"
    /\ Len(order_fills[1]) = 1
    /\ order_fills[1][1].timestamp = 2

\* the fills returned by the last on_market call, with its tick
LastFills == IF IsNone(last_tick) THEN {} ELSE { fills[i] : i \in 1..Len(fills) }

\* C12: every fill is priced fill_price = mid + side_sign x (spread/2 +
\* mid x impact_bps/10000) with slippage = fill_price - mid; a BUY fill has
\* fill_price >= mid and slippage >= 0, a SELL fill fill_price <= mid and
\* slippage <= 0, strictly when the spread or the impact is positive.
C12_FillPricing ==
    \A f \in LastFills :
        LET m == Val(last_tick)
            cost == HalfSpread(m) + Impact(m, f.quantity)
        IN  /\ f.fill_price = Money(m.mid) + SideSign(f.side) * cost
            /\ f.slippage = f.fill_price - Money(m.mid)
            /\ f.side = BUY => f.fill_price >= Money(m.mid) /\ f.slippage >= 0
            /\ f.side = SELL => f.fill_price <= Money(m.mid) /\ f.slippage <= 0
            /\ (HalfSpread(m) > 0 \/ Impact(m, f.quantity) > 0) =>
                   /\ f.side = BUY => f.fill_price > Money(m.mid) /\ f.slippage > 0
                   /\ f.side = SELL => f.fill_price < Money(m.mid) /\ f.slippage < 0

\* C12 witness: a SELL filled under the mid by the impact alone (no spread).
C12_Witness ==
    \E f \in LastFills :
        /\ f.side = SELL
        /\ HalfSpread(Val(last_tick)) = 0
        /\ Impact(Val(last_tick), f.quantity) > 0
        /\ f.slippage < 0

\* C12 second witness: a BUY filled over the mid by the quoted spread alone.
C12_WitnessBuySpread ==
    \E f \in LastFills :
        /\ f.side = BUY
        /\ ~IsNone(Val(last_tick).bid)
        /\ Impact(Val(last_tick), f.quantity) = 0
        /\ f.slippage > 0

\* C12 third witness: no spread and no impact, the fill is at the mid.
C12_WitnessAtMid ==
    \E f \in LastFills : f.slippage = 0 /\ f.fill_price = Money(Val(last_tick).mid)

\* what is left of the entries of q that have waited latency_events ticks
\* at the tick numbered tick
RECURSIVE EligibleRemaining(_, _)
EligibleRemaining(q, tick) ==
    IF q = << >> THEN 0
    ELSE (IF tick - Head(q).submitted_tick >= cfg.execution.micro.latency_events
          THEN Head(q).remaining ELSE 0)
         + EligibleRemaining(Tail(q), tick)

\* floor(default_tick_volume x max_participation_rate)
DefaultCapacity ==
    (cfg.execution.micro.default_tick_volume * cfg.execution.micro.max_participation_rate.n)
        \div cfg.execution.micro.max_participation_rate.d

\* the eligible MARKET orders of the tick's queue are filled up to the
\* capacity derived from default_tick_volume
FilledUpToDefaultCapacity ==
    LET m == Val(last_tick')
        q == pending[m.symbol]
    IN  SumQuantity(fills') =
            Min(DefaultCapacity, EligibleRemaining(q, tick_index'[m.symbol]))

\* C13 as stated: a tick whose volume is 0, processed with
\* default_tick_volume > 0 and max_participation_rate > 0, still admits
\* fills: eligible queued MARKET orders are filled on that tick up to the
\* capacity floor(default_tick_volume x max_participation_rate).
C13_ZeroVolumeUsesDefault ==
    [][(/\ IsOnMarketStep
        /\ Val(last_tick').volume = Some(0)
        /\ cfg.execution.micro.default_tick_volume > 0
        /\ cfg.execution.micro.max_participation_rate.n > 0
        /\ AllOpenMarket(pending[Val(last_tick').symbol]))
       => FilledUpToDefaultCapacity]_vars

\* C13 as amended: a tick that carries no volume (None), processed with
\* default_tick_volume > 0 and max_participation_rate > 0, admits fills:
\* eligible queued MARKET orders are filled on that tick up to the capacity
\* floor(default_tick_volume x max_participation_rate); a tick whose volume
\* is 0 has capacity 0 and admits no fill.
C13_MissingVolumeUsesDefault ==
    [][IsOnMarketStep =>
          /\ (/\ IsNone(Val(last_tick').volume)
              /\ cfg.execution.micro.default_tick_volume > 0
              /\ cfg.execution.micro.max_participation_rate.n > 0
              /\ AllOpenMarket(pending[Val(last_tick').symbol]))
             => FilledUpToDefaultCapacity
          /\ Val(last_tick').volume = Some(0) => fills' = << >>]_vars

\* C13 witness: a tick without a volume filled an order up to the default
\* capacity and left the rest of it queued.
C13_Witness ==
    /\ ~IsNone(last_tick)
    /\ IsNone(Val(last_tick).volume)
    /\ DefaultCapacity > 0
    /\ SumQuantity(fills) = DefaultCapacity
    /\ \E i \in 1..Len(pending[Val(last_tick).symbol]) :
          /\ pending[Val(last_tick).symbol][i].commission_charged
          /\ pending[Val(last_tick).symbol][i].remaining > 0

\* C13 second witness: a tick of volume 0 has passed over an eligible
\* MARKET order although the participation rate is positive.
C13_WitnessZeroVolume ==
    /\ ~IsNone(last_tick)
    /\ Val(last_tick).volume = Some(0)
    /\ DefaultCapacity > 0
    /\ fills = << >>
    /\ LET q == pending[Val(last_tick).symbol] IN
       /\ q # << >>
       /\ AllOpenMarket(q)
       /\ EligibleRemaining(q, tick_index[Val(last_tick).symbol]) > 0

\* a LIMIT order without a limit_price
IsPriceless(order) == order.order_type = "LIMIT" /\ IsNone(order.limit_price)

\* the entry has waited latency_events ticks at the tick numbered tick
Eligible(p, tick) == tick - p.submitted_tick >= cfg.execution.micro.latency_events

\* what the first n entries of q can take of the capacity: the remaining
\* quantities of those that are not LIMIT orders without a price
RECURSIVE Consumable(_, _)
Consumable(q, n) ==
    IF n = 0 THEN 0
    ELSE (IF IsPriceless(q[n].order) THEN 0 ELSE q[n].remaining) + Consumable(q, n - 1)

\* on_market reaches the i-th entry of q with capacity left
ReachedWithCapacity(q, i, m) ==
    /\ \A j \in 1..(i - 1) : q[j].remaining > 0
    /\ Consumable(q, i - 1) < MaxFillThisTick(m)

\* the order id is still queued (primed: after the step)
Queued(id) == \E s \in Symbols : \E i \in 1..Len(pending[s]) : pending[s][i].id = id
QueuedAfter(id) == \E s \in Symbols : \E i \in 1..Len(pending'[s]) : pending'[s][i].id = id

\* C14: a LIMIT order without a limit_price is dropped, not an error: it is
\* accepted by submit, it never produces a fill, on_market removes it from
\* the queue when it is reached at the head while latency-eligible and
\* capacity remains, and it does not block the orders behind it.
C14_PricelessLimitDropped ==
    [][/\ \A id \in 1..next_id' :
             IsPriceless(submitted'[id]) => order_fills'[id] = << >>
       /\ IsSubmitStep => QueuedAfter(next_id')
       /\ IsOnMarketStep =>
            LET m == Val(last_tick')
                q == pending[m.symbol]
                tick == tick_index'[m.symbol]
            IN  \A i \in 1..Len(q) :
                    /\ (/\ IsPriceless(q[i].order)
                        /\ Eligible(q[i], tick)
                        /\ ReachedWithCapacity(q, i, m))
                       => ~QueuedAfter(q[i].id)
                    /\ (/\ q[i].order.order_type = "MARKET"
                        /\ q[i].remaining > 0
                        /\ Eligible(q[i], tick)
                        /\ ReachedWithCapacity(q, i, m)
                        /\ \E j \in 1..(i - 1) :
                              IsPriceless(q[j].order) /\ Eligible(q[j], tick))
                       => FilledNow(q[i].id)]_vars

\* C14 witness: the first tick removed a LIMIT order without a price from
\* the head of the queue and filled the MARKET order behind it.
C14_Witness ==
    /\ now = 1
    /\ next_id = 2
    /\ IsPriceless(submitted[1])
    /\ submitted[2].order_type = "MARKET"
    /\ submitted[2].symbol = submitted[1].symbol
    /\ ~Queued(1)
    /\ order_fills[1] = << >>
    /\ Len(order_fills[2]) = 1

\* C14 second witness: capacity 0 (participation rate 0) leaves the LIMIT
\* order without a price at the head of the queue.
C14_WitnessKept ==
    /\ tick_index["A"] >= 2
    /\ next_id >= 1
    /\ IsPriceless(submitted[1])
    /\ submitted[1].timestamp = 0
    /\ pending["A"] # << >>
    /\ pending["A"][1].id = 1

---------------------------------------------------------------------------
(* Claims about run_backtest                                               *)

\* both executions have returned
BothRunsDone == run # << >> /\ run.no = 2 /\ run.done

\* a summary without its creation time
WithoutCreatedAt(summary) == [summary EXCEPT !.created_at = 0]

\* C7 as stated: given identical config and identical tick stream, two
\* executions of run_backtest return summaries equal in every field.
C7_SummariesIdentical ==
    BothRunsDone => Val(run.summary) = Val(run.first)

\* C7 as amended: the two summaries are equal in every field except
\* created_at, which is the wall-clock time of each execution.
C7_SummariesEqualButCreatedAt ==
    BothRunsDone => WithoutCreatedAt(Val(run.summary)) = WithoutCreatedAt(Val(run.first))

\* C7 witness: both executions traded (a fill was paid for, the equity
\* moved, the curve is not flat) and returned at different wall-clock times.
C7_Witness ==
    /\ BothRunsDone
    /\ Val(run.summary).total_commission > 0
    /\ Val(run.summary).final_equity # Val(run.summary).initial_cash
    /\ Val(run.summary).max_drawdown.n > 0
    /\ Val(run.summary).created_at # Val(run.first).created_at

\* the summary of an execution that has seen at least one tick
RunReturned == run # << >> /\ run.done /\ portfolio.equity_curve # << >>

\* C8 as stated: for the equity curve recorded by any run,
\* max_drawdown(equity_curve) lies in [0, 1).
C8_MaxDrawdownInUnitRange ==
    RunReturned =>
        /\ Val(run.summary).max_drawdown.n >= 0
        /\ Val(run.summary).max_drawdown.n < Val(run.summary).max_drawdown.d

\* C8 as amended: max_drawdown(equity_curve) is never negative; it is at
\* most 1 when no recorded equity is negative, and it is 1 or more when a
\* recorded equity is zero or negative.
C8_MaxDrawdownBounds ==
    RunReturned =>
        LET mdd == Val(run.summary).max_drawdown
            eq == portfolio.equity_curve
        IN  /\ mdd.d > 0
            /\ mdd.n >= 0
            /\ (\A i \in 1..Len(eq) : eq[i] >= 0) => mdd.n <= mdd.d
            /\ (\E i \in 1..Len(eq) : eq[i] <= 0) => mdd.n >= mdd.d

\* C8 witness: a run whose equity fell under its peak and stayed positive.
C8_Witness ==
    /\ RunReturned
    /\ Val(run.summary).max_drawdown.n > 0
    /\ Val(run.summary).max_drawdown.n < Val(run.summary).max_drawdown.d
    /\ Len(portfolio.equity_curve) >= 3

\* C8 second witness: a run that recorded a negative equity.
C8_WitnessNegativeEquity ==
    /\ RunReturned
    /\ \E i \in 1..Len(portfolio.equity_curve) : portfolio.equity_curve[i] < 0
    /\ Val(run.summary).max_drawdown.n > Val(run.summary).max_drawdown.d

---------------------------------------------------------------------------
(* Claims about the event loop of run_backtest, stated over its iterations *)

\* the step is an iteration of the loop (SpecLoop), on the tick LoopTickOf
IsLoopTickStep == Len(stream') = Len(stream) + 1
LoopTickOf == stream'[Len(stream')]

\* the iteration is not skipped for its symbol
IsLoopBodyStep == IsLoopTickStep /\ LoopTickOf.symbol \in SeqToSet(cfg.symbols)

\* C16: once trading_halted is set, run_backtest submits no further order
\* to the execution simulator for the rest of the run, starting with the
\* very tick whose mark_to_market set the halt: neither strategy-originated
\* orders nor stop-loss liquidation orders.
C16_NoOrderOnceHalted ==
    [][(IsLoopTickStep /\ portfolio'.risk_state.trading_halted) =>
          /\ submitted' = submitted
          /\ next_id' = next_id
          /\ \A s \in Symbols : Len(pending'[s]) <= Len(pending[s])
          /\ strategy' = strategy]_vars

\* C16 witness: the tick that set the halt also hit the stop loss of the
\* position, and no liquidation order followed the one order of the run.
C16_Witness ==
    /\ portfolio.risk_state.trading_halted
    /\ ~IsNone(last_tick)
    /\ ~IsNone(CheckStopLoss(portfolio, Val(last_tick).symbol))
    /\ portfolio.positions[Val(last_tick).symbol].quantity # 0
    /\ Len(submitted) = 1
    /\ \A s \in Symbols : pending[s] = << >>

\* C16 second witness: the strategy would have signalled on a halted tick.
C16_WitnessSignalSkipped ==
    /\ portfolio.risk_state.trading_halted
    /\ ~IsNone(last_tick)
    /\ ~IsNone(StrategyOnMarket(strategy, Val(last_tick)).signal)

RECURSIVE SumSigned(_)
SumSigned(fs) == IF fs = << >> THEN 0 ELSE SignedQty(Head(fs)) + SumSigned(Tail(fs))

RECURSIVE SumNotional(_)
SumNotional(fs) ==
    IF fs = << >> THEN 0
    ELSE Head(fs).fill_price * SignedQty(Head(fs)) + SumNotional(Tail(fs))

RECURSIVE SumSlippageCost(_)
SumSlippageCost(fs) ==
    IF fs = << >> THEN 0
    ELSE Head(fs).slippage * SignedQty(Head(fs)) + SumSlippageCost(Tail(fs))

\* C17: the halt is not a settlement freeze: on every tick after
\* trading_halted is set, the fills that execution.on_market produces for
\* orders submitted before the halt are still applied to the portfolio
\* (cash, position, commission and slippage accumulators, equity), in the
\* order returned.
C17_FillsAppliedWhileHalted ==
    [][(IsLoopBodyStep /\ portfolio.risk_state.trading_halted) =>
          LET m == LoopTickOf
              marked == MarkToMarket(portfolio, m.symbol, m.mid)
              old_qty == IF m.symbol \in DOMAIN portfolio.positions
                         THEN portfolio.positions[m.symbol].quantity ELSE 0
          IN  /\ fills' = OnMarketOf(Self, m).fills
              /\ portfolio' = ApplyFills(marked, fills')
              /\ portfolio'.cash
                     = portfolio.cash - SumNotional(fills') - SumCommission(fills')
              /\ portfolio'.total_commission
                     = portfolio.total_commission + SumCommission(fills')
              /\ portfolio'.total_slippage_cost
                     = portfolio.total_slippage_cost + SumSlippageCost(fills')
              /\ fills' # << >> =>
                     portfolio'.positions[m.symbol].quantity = old_qty + SumSigned(fills')
              /\ portfolio'.equity
                     = marked.equity - SumCommission(fills')
                       - (SumNotional(fills') - SumSigned(fills') * Money(m.mid))]_vars

\* C17 witness: the halt was set on an earlier tick than the last, and the
\* last tick filled what was left of an order submitted before the halt.
C17_Witness ==
    /\ portfolio.risk_state.trading_halted
    /\ Len(portfolio.equity_curve) >= 2
    /\ DrawdownReached(portfolio.peak_equity,
                       portfolio.equity_curve[Len(portfolio.equity_curve) - 1])
    /\ fills # << >>
    /\ Len(submitted) = 1
    /\ Len(order_fills[1]) = 3
    /\ order_fills[1][2].timestamp < fills[1].timestamp
    /\ portfolio.positions[fills[1].symbol].quantity = 3

\* the portfolio of an iteration when the loop tests the halt and calls
\* check_stop_loss: marked, with the fills of the tick applied
PortfolioAtRiskCheck ==
    ApplyFills(MarkToMarket(portfolio, LoopTickOf.symbol, LoopTickOf.mid), fills')

\* C18: on a tick where trading is not halted and check_stop_loss returns a
\* side for the tick's symbol, the loop submits exactly one MARKET order of
\* that side whose quantity equals the absolute position of the symbol at
\* that moment, and does not invoke the strategy on that tick (no strategy
\* order, no strategy state update).
C18_StopLossLiquidation ==
    [][(/\ IsLoopBodyStep
        /\ ~PortfolioAtRiskCheck.risk_state.trading_halted
        /\ ~IsNone(CheckStopLoss(PortfolioAtRiskCheck, LoopTickOf.symbol)))
       => LET m == LoopTickOf
              pf2 == PortfolioAtRiskCheck
              liquidation == OrderEvent(m.timestamp, m.symbol,
                                        Val(CheckStopLoss(pf2, m.symbol)),
                                        Abs(pf2.positions[m.symbol].quantity),
                                        "MARKET", None)
          IN  /\ liquidation.quantity > 0
              /\ submitted' = Append(submitted, liquidation)
              /\ Len(pending'[m.symbol]) >= 1
              /\ pending'[m.symbol][Len(pending'[m.symbol])].order = liquidation
              /\ pending'[m.symbol][Len(pending'[m.symbol])].id = next_id'
              /\ next_id' = next_id + 1
              /\ strategy' = strategy
              /\ signal_log' = signal_log]_vars

\* C18 witness: the last tick hit the stop of a long position: the second
\* order of the run is its liquidation, and the strategy, which has not
\* seen the tick, would have signalled SELL on it.
C18_Witness ==
    /\ ~portfolio.risk_state.trading_halted
    /\ ~IsNone(last_tick)
    /\ Len(submitted) = 2
    /\ submitted[2].timestamp = Val(last_tick).timestamp
    /\ submitted[2].side = SELL
    /\ signal_log[Val(last_tick).symbol] = << BUY >>
    /\ portfolio.positions[Val(last_tick).symbol].quantity = submitted[2].quantity
    /\ CheckStopLoss(portfolio, Val(last_tick).symbol) = Some(SELL)
    /\ StrategyOnMarket(strategy, Val(last_tick)).signal = Some(SELL)

\* C18 second witness: the stop of a short position, liquidated by a BUY.
C18_WitnessShort ==
    /\ ~portfolio.risk_state.trading_halted
    /\ ~IsNone(last_tick)
    /\ Len(submitted) = 2
    /\ submitted[2].timestamp = Val(last_tick).timestamp
    /\ submitted[2].side = BUY
    /\ signal_log[Val(last_tick).symbol] = << SELL >>
    /\ portfolio.positions[Val(last_tick).symbol].quantity = -submitted[2].quantity

\* the strategy returned a signal in this iteration; its side
SignalledNow == Len(signal_log'[LoopTickOf.symbol]) = Len(signal_log[LoopTickOf.symbol]) + 1
SignalSideNow == signal_log'[LoopTickOf.symbol][Len(signal_log'[LoopTickOf.symbol])]

\* |current position quantity + signed qty| <= max_position_per_symbol
WithinPositionCap(quantity, side, qty) ==
    Abs(quantity + SideSign(side) * qty) <= cfg.risk.max_position_per_symbol

\* C20: can_place_order(sym, side, qty) is true iff |current position
\* quantity + signed qty| <= max_position_per_symbol, and run_backtest
\* submits a strategy-originated MARKET order of trade_quantity on a tick
\* iff the strategy returned a Signal on that tick and can_place_order is
\* true for it.
C20_OrderIffSignalAndCap ==
    [][IsLoopBodyStep =>
          LET m == LoopTickOf
              at_check == WithPosition(PortfolioAtRiskCheck, m.symbol)
              quantity == at_check.positions[m.symbol].quantity
              liquidated == /\ ~PortfolioAtRiskCheck.risk_state.trading_halted
                            /\ ~IsNone(CheckStopLoss(PortfolioAtRiskCheck, m.symbol))
          IN  /\ \A side \in Sides : \A qty \in 1..(cfg.trade_quantity + 1) :
                    CanPlaceOrder(at_check, m.symbol, side, qty)
                        <=> WithinPositionCap(quantity, side, qty)
              /\ (SignalledNow /\ WithinPositionCap(quantity, SignalSideNow, cfg.trade_quantity))
                 => submitted' = Append(submitted,
                                        OrderEvent(m.timestamp, m.symbol, SignalSideNow,
                                                   cfg.trade_quantity, "MARKET", None))
              /\ ~(SignalledNow /\ WithinPositionCap(quantity, SignalSideNow, cfg.trade_quantity))
                 => IF liquidated THEN Len(submitted') = Len(submitted) + 1
                    ELSE submitted' = submitted
              /\ SignalledNow => ~liquidated]_vars

\* C20 witness: the strategy signalled SELL while the position was long and
\* the order that closes part of it was submitted.
C20_Witness ==
    /\ ~IsNone(last_tick)
    /\ signal_log[Val(last_tick).symbol] = << BUY, SELL >>
    /\ Len(submitted) = 2
    /\ submitted[2].timestamp = Val(last_tick).timestamp
    /\ submitted[2].side = SELL
    /\ submitted[2].quantity = cfg.trade_quantity
    /\ portfolio.positions[Val(last_tick).symbol].quantity > 0
    /\ portfolio.positions[Val(last_tick).symbol].quantity + cfg.trade_quantity
           > cfg.risk.max_position_per_symbol

\* C20 second witness: the strategy signalled and the cap refused the order.
C20_WitnessRefused ==
    /\ ~IsNone(last_tick)
    /\ signal_log[Val(last_tick).symbol] = << BUY >>
    /\ submitted = << >>
    /\ ~portfolio.risk_state.trading_halted
    /\ Val(last_tick).symbol \in DOMAIN portfolio.positions
    /\ cfg.trade_quantity > cfg.risk.max_position_per_symbol

---------------------------------------------------------------------------
(* Position and portfolio accounting                                       *)

\* a step of SpecPortfolio that is one on_fill call, and the fill it applied
IsOnFillStep == Len(fills') = Len(fills) + 1
FillApplied == fills'[Len(fills')]

\* the position of a symbol, flat when the portfolio has none yet
PositionOf(pf, symbol) ==
    IF symbol \in DOMAIN pf.positions THEN pf.positions[symbol] ELSE NewPosition

\* avg = (old_avg * |old_qty| + price * fill_qty) / (|old_qty| + fill_qty),
\* compared without dividing
IsShareWeightedMean(avg, old, fill) ==
    avg.n * old.avg_cost.d * (Abs(old.quantity) + fill.quantity)
      = avg.d * (old.avg_cost.n * Abs(old.quantity)
                   + fill.fill_price * fill.quantity * old.avg_cost.d)

\* C21: in every on_fill call the position of the fill's symbol ends with
\* avg_cost = 0 when its quantity is 0; with the share-weighted mean of the old
\* avg_cost over |old quantity| and the fill price over the fill quantity when
\* the fill is in the direction of the position or the position was flat; with
\* the old avg_cost when the fill reduces it without changing its sign; and
\* with the fill price when the fill flips its sign.  No position ever has
\* quantity 0 and a non-zero avg_cost.
C21_AvgCostRules ==
    [][ /\ \A s \in DOMAIN portfolio'.positions :
              portfolio'.positions[s].quantity = 0 => portfolio'.positions[s].avg_cost.n = 0
        /\ IsOnFillStep =>
              LET f == FillApplied
                  old == PositionOf(portfolio, f.symbol)
                  new == PositionOf(portfolio', f.symbol)
                  signed_qty == SignedQty(f)
              IN  /\ (old.quantity * signed_qty >= 0 /\ f.quantity > 0)
                        => IsShareWeightedMean(new.avg_cost, old, f)
                  /\ (old.quantity * signed_qty < 0
                        /\ old.quantity * (old.quantity + signed_qty) > 0)
                        => new.avg_cost = old.avg_cost
                  /\ old.quantity * (old.quantity + signed_qty) < 0
                        => new.avg_cost = Frac(f.fill_price, 1) ]_vars

\* two fills of one symbol in the same direction at different prices
C21_Witness ==
    /\ Len(fills) = 2
    /\ fills[1].symbol = fills[2].symbol
    /\ fills[1].side = fills[2].side
    /\ fills[1].fill_price # fills[2].fill_price
    /\ portfolio.positions[fills[2].symbol].quantity = -4
    /\ portfolio.positions[fills[2].symbol].avg_cost # Frac(fills[1].fill_price, 1)
    /\ portfolio.positions[fills[2].symbol].avg_cost # Frac(fills[2].fill_price, 1)

\* a fill that flips a short position to a long one at another price
C21_WitnessFlip ==
    /\ Len(fills) = 2
    /\ fills[1].symbol = fills[2].symbol
    /\ fills[1].side = SELL /\ fills[2].side = BUY
    /\ fills[1].fill_price # fills[2].fill_price
    /\ portfolio.positions[fills[2].symbol].quantity > 0
    /\ portfolio.positions[fills[2].symbol].avg_cost = Frac(fills[2].fill_price, 1)

\* a fill that reduces a long position, at a price other than its cost
C21_WitnessReduce ==
    /\ Len(fills) = 2
    /\ fills[1].symbol = fills[2].symbol
    /\ fills[1].side = BUY /\ fills[2].side = SELL
    /\ fills[1].fill_price # fills[2].fill_price
    /\ portfolio.positions[fills[2].symbol].quantity = 1
    /\ portfolio.positions[fills[2].symbol].avg_cost = Frac(fills[1].fill_price, 1)

\* a fill that closes a position
C21_WitnessFlat ==
    /\ Len(fills) = 2
    /\ fills[1].symbol = fills[2].symbol
    /\ portfolio.positions[fills[2].symbol] = NewPosition

\* the fills of one symbol, in order
FillsOf(fs, symbol) == SelectSeq(fs, LAMBDA f : f.symbol = symbol)

\* C22: after any sequence of on_fill calls, cash = initial_cash
\* - sum(fill_price x signed_qty) - sum(commission), total_commission =
\* sum(commission), total_slippage_cost = sum(slippage x signed_qty) and each
\* position's quantity = the sum of the signed quantities of its symbol's
\* fills (+quantity for BUY, -quantity for SELL); a mark_to_market call
\* changes none of them.
C22_Accumulators ==
    /\ [](/\ portfolio.cash
               = Money(cfg.initial_cash) - SumNotional(fills) - SumCommission(fills)
          /\ portfolio.total_commission = SumCommission(fills)
          /\ portfolio.total_slippage_cost = SumSlippageCost(fills)
          /\ \A s \in Symbols :
                PositionOf(portfolio, s).quantity = SumSigned(FillsOf(fills, s)))
    /\ [][IsMarkStep =>
             /\ portfolio'.cash = portfolio.cash
             /\ portfolio'.total_commission = portfolio.total_commission
             /\ portfolio'.total_slippage_cost = portfolio.total_slippage_cost
             /\ \A s \in Symbols :
                   PositionOf(portfolio', s).quantity = PositionOf(portfolio, s).quantity]_vars

\* fills of both sides on both symbols, with commission and slippage paid, and
\* a mark after the last of them
C22_Witness ==
    /\ Len(fills) = 2
    /\ fills[1].symbol # fills[2].symbol
    /\ fills[1].side # fills[2].side
    /\ SumCommission(fills) > 0
    /\ SumSlippageCost(fills) # 0
    /\ portfolio.equity_curve # << >>
    /\ portfolio.last_mid # << >>
    /\ now > fills[2].timestamp

---------------------------------------------------------------------------
(* Event records                                                           *)

\* an order with a non-positive quantity, or a LIMIT order without a price
IsMalformed(order) == order.quantity <= 0 \/ IsPriceless(order)

\* C23 as stated: event records validate their fields at construction, so no
\* order with a non-positive quantity and no LIMIT order without a limit_price
\* is ever submitted to the execution queue.
C23_NoMalformedOrderSubmitted ==
    \A id \in 1..next_id : ~IsMalformed(submitted[id])

\* C23 as amended: an order with a non-positive quantity, or a LIMIT order
\* without a limit_price, can be constructed and submitted; submit queues it
\* like any other order, with remaining = quantity, and it never produces a
\* fill.
C23_MalformedOrderNeverFills ==
    [][/\ \A id \in 1..next_id' :
             IsMalformed(submitted'[id]) => order_fills'[id] = << >>
       /\ IsSubmitStep =>
             LET o == submitted'[next_id']
                 q == pending'[o.symbol]
             IN  /\ Len(q) = Len(pending[o.symbol]) + 1
                 /\ q[Len(q)].order = o
                 /\ q[Len(q)].id = next_id'
                 /\ q[Len(q)].remaining = o.quantity]_vars

\* C23 witness: an order with a non-positive quantity was submitted, has
\* waited its latency and has been at the head of the queue on a tick with
\* capacity; it is still queued, without a fill.
C23_Witness ==
    /\ next_id >= 1
    /\ submitted[1].quantity <= 0
    /\ ~IsNone(last_tick)
    /\ Val(last_tick).symbol = submitted[1].symbol
    /\ MaxFillThisTick(Val(last_tick)) > 0
    /\ pending[submitted[1].symbol] # << >>
    /\ pending[submitted[1].symbol][1].id = 1
    /\ Eligible(pending[submitted[1].symbol][1], tick_index[submitted[1].symbol])
    /\ order_fills[1] = << >>

\* C23 second witness: the same with a negative quantity
C23_WitnessNegative == C23_Witness /\ submitted[1].quantity < 0

---------------------------------------------------------------------------
(* Claims about the tick source                                            *)

\* the ticks yielded so far are the first csv.pos rows of the sorted frame
EmittedRow(k) == Val(csv.frame)[k]
DayOf(k) == Val(ToDatetime(csv.rows[k].date))

\* C25: the tick source emits ticks in ascending timestamp order, and ticks
\* with equal timestamps are emitted in their original file order (stable
\* sort).
C25_StableTimestampOrder ==
    \A i, j \in 1..csv.pos :
        i < j => \/ DayOf(EmittedRow(i)) < DayOf(EmittedRow(j))
                 \/ /\ DayOf(EmittedRow(i)) = DayOf(EmittedRow(j))
                    /\ EmittedRow(i) < EmittedRow(j)

\* what the code does guarantee: ascending timestamps
AscendingTimestamps ==
    \A i, j \in 1..Len(stream) : i < j => stream[i].timestamp <= stream[j].timestamp

\* the cell is a non-finite or too small number
BadNumber(cell, positive) ==
    \/ cell = Inf
    \/ IsNum(cell) /\ (IF positive THEN cell[2] <= 0 ELSE cell[2] < 0)

\* the row has a value the reader must reject: a non-finite or non-positive
\* mid, bid or ask, ask < bid, a negative or non-finite spread_bps or volume
RowRejected(columns, row) ==
    LET cell(name) == RawOptional(columns, row, name) IN
    \/ row.mid = Null \/ BadNumber(row.mid, TRUE)
    \/ BadNumber(cell("bid"), TRUE)
    \/ BadNumber(cell("ask"), TRUE)
    \/ IsNum(cell("bid")) /\ IsNum(cell("ask")) /\ cell("ask")[2] < cell("bid")[2]
    \/ BadNumber(cell("spread_bps"), FALSE)
    \/ BadNumber(cell("volume"), FALSE)

\* the row has a good mid and every optional field is null or a good number
RowAccepted(columns, row) ==
    LET cell(name) == RawOptional(columns, row, name) IN
    /\ IsNum(row.mid)
    /\ \A name \in OptionalColumns : cell(name) = Null \/ IsNum(cell(name))
    /\ ~RowRejected(columns, row)

\* the file lacks a required column or has a date that does not parse
FrameRejected(c) ==
    \/ ~(RequiredColumns \subseteq c.columns)
    \/ \E i \in 1..Len(c.rows) : c.rows[i].date \in { Text, Null }

\* the tick a good row becomes: a null optional field is absent
TickOfRow(columns, row) ==
    LET field(name) == IF IsNum(RawOptional(columns, row, name))
                       THEN Some(RawOptional(columns, row, name)[2]) ELSE None
    IN  MarketEvent(row.date[2], row.symbol, row.mid[2], field("bid"), field("ask"),
                    field("spread_bps"), field("volume"))

\* C29: the tick source aborts with an error, yielding no invalid tick, when
\* the CSV lacks a required column, has an unparseable date, a non-finite or
\* non-positive mid, bid or ask, ask < bid, or a negative or non-finite
\* spread_bps or volume: a file with such a defect never ends without an
\* error, a missing column or a bad date raises before any tick, and a bad row
\* raises instead of being yielded.  A good row, whose optional fields may be
\* null, is yielded with those fields absent.
C29_InvalidRowsAbort ==
    /\ [](/\ csv.done => /\ ~FrameRejected(csv)
                         /\ \A i \in 1..Len(csv.rows) : ~RowRejected(csv.columns, csv.rows[i])
          /\ Len(stream) = csv.pos
          /\ \A k \in 1..Len(stream) :
                /\ RowAccepted(csv.columns, csv.rows[EmittedRow(k)])
                /\ stream[k] = TickOfRow(csv.columns, csv.rows[EmittedRow(k)]))
    /\ [][/\ FrameRejected(csv) => (~IsNone(csv'.error) /\ stream' = << >>)
          /\ (~FrameRejected(csv) /\ csv.pos < Len(csv.rows)) =>
                LET row == csv.rows[Val(csv'.frame)[csv.pos + 1]] IN
                /\ RowRejected(csv.columns, row) =>
                      (~IsNone(csv'.error) /\ stream' = stream)
                /\ RowAccepted(csv.columns, row) =>
                      /\ IsNone(csv'.error)
                      /\ stream' = Append(stream, TickOfRow(csv.columns, row))]_vars

\* C29 witness: two rows were yielded, the first with null bid and ask, and
\* the third raised
C29_Witness ==
    /\ ~IsNone(csv.error)
    /\ Len(stream) = 2
    /\ Len(csv.rows) = 3
    /\ "bid" \in csv.columns
    /\ IsNone(stream[1].bid) /\ IsNone(stream[1].ask)
    /\ RowRejected(csv.columns, csv.rows[Val(csv.frame)[3]])

\* C29 second witness: a crossed quote raised
C29_WitnessQuote == ~IsNone(csv.error) /\ Val(csv.error) = "Invalid quote"

\* C29 third witness: a missing column raised
C29_WitnessColumns == ~IsNone(csv.error) /\ Val(csv.error) = "CSV missing columns"

\* C29 fourth witness: a file of three good rows was read to its end
C29_WitnessDone == csv.done /\ Len(stream) = 3

\* the tick passes the checks of the tick source: mid > 0, bid and ask > 0
\* with ask >= bid, spread_bps >= 0, volume >= 0
ValidatedTick(m) ==
    /\ m.mid > 0
    /\ ~IsNone(m.bid) => Val(m.bid) > 0
    /\ ~IsNone(m.ask) => Val(m.ask) > 0
    /\ (~IsNone(m.bid) /\ ~IsNone(m.ask)) => Val(m.ask) >= Val(m.bid)
    /\ ~IsNone(m.spread_bps) => Val(m.spread_bps) >= 0
    /\ ~IsNone(m.volume) => Val(m.volume) >= 0

\* C24: every fill emitted by the execution simulator, for any validated tick
\* and any accepted config, has fill_price > 0, for SELL as well as BUY
\* orders.
C24_FillPricePositive ==
    (~IsNone(last_tick) /\ ValidatedTick(Val(last_tick)) /\ BacktestConfigOK(cfg))
        => \A f \in LastFills : f.fill_price > 0

\* what holds of the prices: a BUY fill is priced over 0, and a SELL fill is
\* priced over 0 exactly when half the spread plus the impact is under the mid
FillPriceSign ==
    ~IsNone(last_tick) =>
        \A f \in LastFills :
            LET m == Val(last_tick) IN
            /\ f.side = BUY => f.fill_price > 0
            /\ f.side = SELL =>
                  (f.fill_price > 0 <=> HalfSpread(m) + Impact(m, f.quantity) < Money(m.mid))

---------------------------------------------------------------------------
(* Claims about the sweep driver                                           *)

\* the pairs (sw, lw) of a sequence of pairs with sw < lw, in order
WithShortUnderLong(pairs) == SelectSeq(pairs, LAMBDA p : p[1] < p[2])

AllPairs == Product(sweep.short_windows, sweep.long_windows)
VisitedPairs == SubSeq(AllPairs, 1, sweep.visited)

\* the sweep has ended: it returned, or an error left it
SweepEnded == ~IsNone(sweep.returned) \/ ~IsNone(sweep.error)

\* the call of run_backtest recorded is the one the pair asks for
IsRunOfPair(call, pair) ==
    /\ call.persist = FALSE
    /\ call.cfg.short_window = pair[1]
    /\ call.cfg.long_window = pair[2]
    /\ call.cfg.run_name
         = cfg.run_name \o "-sw" \o ToString(pair[1]) \o "-lw" \o ToString(pair[2])
    /\ call.cfg = [cfg EXCEPT !.short_window = pair[1], !.long_window = pair[2],
                              !.run_name = call.cfg.run_name]

\* C26 as stated: when the sweep has ended and no backtest has raised, exactly
\* one backtest, with persist=false, has been executed for each pair (sw, lw)
\* of the Cartesian product with sw < lw, in row-major order, with
\* short_window=sw, long_window=lw and run_name = "<base>-sw<sw>-lw<lw>".
C26_OneBacktestPerPair ==
    (SweepEnded /\ sweep.error # Some("run_backtest raised")) =>
        /\ Len(sweep.runs) = Len(WithShortUnderLong(AllPairs))
        /\ \A k \in 1..Len(sweep.runs) :
              IsRunOfPair(sweep.runs[k], WithShortUnderLong(AllPairs)[k])

\* C26 as amended: the pairs are visited in row-major order; a pair with
\* sw >= lw is skipped and produces no summary; for each pair with 0 < sw < lw
\* exactly one backtest is executed, with persist=false, short_window=sw,
\* long_window=lw and run_name = "<base>-sw<sw>-lw<lw>", and its summary is
\* collected; a pair with sw < lw and sw <= 0 fails the construction of the
\* derived config, and that error, like one raised by a backtest, ends the
\* sweep before any later pair is visited.  A sweep that returns has visited
\* every pair.
C26_OneBacktestPerPositivePair ==
    LET ran == WithShortUnderLong(VisitedPairs)
        raised == sweep.error = Some("run_backtest raised")
    IN  /\ Len(sweep.results) = Len(ran)
        /\ Len(sweep.runs) = Len(ran) + (IF raised THEN 1 ELSE 0)
        /\ \A k \in 1..Len(ran) :
              /\ ran[k][1] > 0
              /\ IsRunOfPair(sweep.runs[k], ran[k])
              /\ sweep.results[k].run_name = sweep.runs[k].cfg.run_name
              /\ sweep.results[k].short_window = ran[k][1]
              /\ sweep.results[k].long_window = ran[k][2]
        /\ ~IsNone(sweep.error) =>
              /\ IsNone(sweep.returned)
              /\ sweep.visited < Len(AllPairs)
              /\ LET pair == AllPairs[sweep.visited + 1] IN
                  /\ pair[1] < pair[2]
                  /\ raised => pair[1] > 0 /\ IsRunOfPair(sweep.runs[Len(sweep.runs)], pair)
                  /\ ~raised => pair[1] <= 0
        /\ ~IsNone(sweep.returned) => sweep.visited = Len(AllPairs)

\* C26 witness: a sweep over four pairs returned after skipping one pair and
\* running three, with different windows
C26_Witness ==
    /\ ~IsNone(sweep.returned)
    /\ Len(AllPairs) = 4
    /\ Len(sweep.runs) = 3
    /\ sweep.runs[1].cfg.short_window # sweep.runs[3].cfg.short_window
    /\ sweep.runs[1].cfg.long_window # sweep.runs[2].cfg.long_window

\* C26 second witness: a derived config with short_window = 0 ended the sweep
\* after one backtest
C26_WitnessRefused ==
    /\ sweep.error = Some("ValueError: BacktestConfig")
    /\ Len(sweep.runs) = 1
    /\ AllPairs[sweep.visited + 1][1] = 0

\* the grids have no pair with sw < lw
NoValidPair == WithShortUnderLong(AllPairs) = << >>

\* C27: a sweep whose grids contain no pair with sw < lw is not a failure: it
\* runs no backtest, inserts nothing, raises no error, and returns an empty
\* result that still has the summary columns, written to the CSV as well.
C27_EmptySweepReturnsColumns ==
    NoValidPair =>
        /\ sweep.runs = << >>
        /\ sweep.inserted = << >>
        /\ IsNone(sweep.error)
        /\ (sweep.visited = Len(AllPairs) /\ IsNone(sweep.returned)) => ENABLED SweepFinish
        /\ ~IsNone(sweep.returned) =>
              /\ Val(sweep.returned).rows = << >>
              /\ Val(sweep.returned).columns = SummaryColumns
              /\ sweep.exported = sweep.returned
              /\ sweep.warned

\* C27 witness: a sweep over two pairs, none with sw < lw, has returned
C27_Witness ==
    /\ NoValidPair
    /\ Len(AllPairs) = 2
    /\ ~IsNone(sweep.returned)
    /\ sweep.visited = 2


\* the bounds the config records state: some field of c is outside its bound
OutsideUnit(f) == f.n < 0 \/ f.n > f.d
ViolatesStatedBound(c) ==
    \/ c.symbols = << >>
    \/ \E i \in 1..Len(c.symbols) : IsBlank(c.symbols[i])
    \/ ~(0 < c.short_window /\ c.short_window < c.long_window)
    \/ c.execution.micro.latency_events < 0
    \/ c.execution.micro.default_tick_volume <= 0
    \/ c.execution.impact_volume <= 0
    \/ c.execution.default_spread_bps < 0
    \/ c.execution.impact_bps_per_unit < 0
    \/ c.risk.max_position_per_symbol <= 0
    \/ c.initial_cash <= 0
    \/ OutsideUnit(c.execution.micro.max_participation_rate)
    \/ OutsideUnit(c.execution.micro.queue_ahead_fraction)
    \/ OutsideUnit(c.execution.micro.base_fill_probability)
    \/ OutsideUnit(c.risk.stop_loss_pct)
    \/ OutsideUnit(c.risk.max_drawdown_pct)

\* the bounds BacktestConfig enforces beside those
ViolatesOtherBound(c) ==
    \/ c.trade_quantity <= 0
    \/ c.commission_per_trade < 0
    \/ IsBlank(c.csv_path)
    \/ IsBlank(c.run_name)
    \/ IsBlank(c.out_dir)
    \/ IsBlank(c.database_url)

RunStarted == run # << >>

\* C28 as stated: a construction fails exactly when one of the listed bounds
\* is violated (symbols, windows, latency_events, default_tick_volume,
\* impact_volume, default_spread_bps, impact_bps_per_unit,
\* max_position_per_symbol, initial_cash, the five rates in [0, 1]), and no
\* config violating one of them reaches a run.
C28_FailsExactlyOnStatedBounds ==
    /\ constructed.attempted => (~constructed.ok <=> ViolatesStatedBound(constructed.args))
    /\ RunStarted => ~ViolatesStatedBound(cfg)

\* C28, amended: a construction fails exactly when one of the listed bounds is
\* violated or trade_quantity <= 0, commission_per_trade < 0, or csv_path,
\* run_name, out_dir or database_url is blank; no config violating any of
\* these bounds reaches a run.
C28_FailsExactlyOnEnforcedBounds ==
    /\ constructed.attempted =>
         (~constructed.ok <=> (\/ ViolatesStatedBound(constructed.args)
                               \/ ViolatesOtherBound(constructed.args)))
    /\ ~IsNone(constructed.config) =>
         ~(ViolatesStatedBound(Val(constructed.config))
             \/ ViolatesOtherBound(Val(constructed.config)))
    /\ ~IsNone(constructed.derived) =>
         ~(ViolatesStatedBound(Val(constructed.derived))
             \/ ViolatesOtherBound(Val(constructed.derived)))
    /\ RunStarted => ~(ViolatesStatedBound(cfg) \/ ViolatesOtherBound(cfg))

\* a construction refused for a rate above 1, every other field within bounds
C28_Witness ==
    /\ constructed.attempted
    /\ ~constructed.ok
    /\ constructed.args = [BaseConfig EXCEPT !.risk.stop_loss_pct = Frac(3, 2)]

\* a construction refused for a bound that is not among the listed ones
C28_WitnessUnstated ==
    /\ constructed.attempted
    /\ ~constructed.ok
    /\ ~ViolatesStatedBound(constructed.args)
    /\ constructed.args.trade_quantity = 0

\* a run started with a derived config
C28_WitnessRun ==
    /\ RunStarted
    /\ cfg.short_window = 2
    /\ cfg.long_window = 3
    /\ cfg.execution.micro.base_fill_probability = Frac(0, 1)


\* the mids of the events of a symbol among the events fed, in order
RECURSIVE MidsOf(_, _)
MidsOf(events, symbol) ==
    IF events = << >> THEN << >>
    ELSE IF Head(events).symbol = symbol
         THEN << Head(events).mid >> \o MidsOf(Tail(events), symbol)
         ELSE MidsOf(Tail(events), symbol)

\* the sum of the last min(n, w) of the first n mids, added from the oldest
\* to the newest in the floats of the strategy
RECURSIVE SumOfLast(_, _, _)
SumOfLast(mids, n, w) ==
    IF n = 0 \/ w = 0 THEN 0 ELSE FloatAdd(SumOfLast(mids, n - 1, w - 1), mids[n])

\* the reference rule at the n-th mid of a symbol, the averages recomputed
\* from the mids: short_ma = short / S and long_ma = long / L
RefSide(mids, n, last) ==
    LET short_ma == FloatDiv(SumOfLast(mids, n, cfg.short_window), cfg.short_window)
        long_ma == FloatDiv(SumOfLast(mids, n, cfg.long_window), cfg.long_window)
    IN  IF n >= cfg.long_window /\ short_ma > long_ma /\ last # Some(BUY) THEN Some(BUY)
        ELSE IF n >= cfg.long_window /\ short_ma < long_ma /\ last # Some(SELL)
             THEN Some(SELL)
        ELSE None

LastOf(sides) == IF sides = << >> THEN None ELSE Some(sides[Len(sides)])

\* the sides the reference emits over the first n mids of a symbol
RECURSIVE RefEmitted(_, _)
RefAfter(emitted, mids, n) ==
    IF IsNone(RefSide(mids, n, LastOf(emitted))) THEN emitted
    ELSE Append(emitted, Val(RefSide(mids, n, LastOf(emitted))))
RefEmitted(mids, n) == IF n = 0 THEN << >> ELSE RefAfter(RefEmitted(mids, n - 1), mids, n)

\* a step is one call of on_market, with the event stream' ends with
IsStrategyCall == Len(stream') = Len(stream) + 1
CallEvent == stream'[Len(stream')]
Configured(symbol) == \E i \in 1..Len(cfg.symbols) : cfg.symbols[i] = symbol
\* what the call returned: the side appended to the log of the symbol, if any
Returned(symbol) ==
    IF signal_log'[symbol] = signal_log[symbol] THEN None
    ELSE Some(signal_log'[symbol][Len(signal_log'[symbol])])
CallAgreesWithReference(symbol) ==
    LET mids == MidsOf(stream', symbol)
        n == Len(mids)
        L == cfg.long_window
        short == SumOfLast(mids, n, cfg.short_window)
        long == SumOfLast(mids, n, L)
        short_ma == FloatDiv(short, cfg.short_window)
        long_ma == FloatDiv(long, L)
        last == LastOf(RefEmitted(mids, n - 1))
    IN  /\ strategy'.short_sums[symbol] = short
        /\ strategy'.long_sums[symbol] = long
        /\ Len(signal_log'[symbol]) <= Len(signal_log[symbol]) + 1
        /\ Returned(symbol) = Some(BUY)
             <=> (n >= L /\ short_ma > long_ma /\ last # Some(BUY))
        /\ Returned(symbol) = Some(SELL)
             <=> (n >= L /\ short_ma < long_ma /\ last # Some(SELL))
        /\ (n < L \/ short_ma = long_ma) => IsNone(Returned(symbol))

\* C30: on_market agrees with a reference that recomputes the averages from
\* the mids fed so far: after n ticks of a configured symbol the running sums
\* are the sums of the last min(n, S) and min(n, L) mids, and the call returns
\* at most one signal, BUY iff n >= L, short_ma > long_ma and the last emitted
\* side is not BUY, SELL iff n >= L, short_ma < long_ma and the last emitted
\* side is not SELL, nothing during warm-up or on equality; a call for an
\* unknown symbol changes nothing and returns nothing; the log of the emitted
\* sides of each configured symbol is the one the reference emits.
C30_AgreesWithReference ==
    /\ [][IsStrategyCall =>
            /\ \A s \in Symbols : s # CallEvent.symbol => signal_log'[s] = signal_log[s]
            /\ IF Configured(CallEvent.symbol)
               THEN CallAgreesWithReference(CallEvent.symbol)
               ELSE strategy' = strategy /\ signal_log' = signal_log]_vars
    /\ [](\A s \in Symbols :
            Configured(s) =>
              signal_log[s] = RefEmitted(MidsOf(stream, s), Len(MidsOf(stream, s))))

\* four ticks of a symbol with windows 2 and 3: both buffers have evicted, a
\* BUY and then a SELL were returned
C30_Witness ==
    /\ cfg.short_window = 2
    /\ cfg.long_window = 3
    /\ Len(MidsOf(stream, "A")) = 4
    /\ signal_log["A"] = << BUY, SELL >>

\* a tick of an unknown symbol was fed
C30_WitnessUnknown ==
    /\ cfg.symbols = << "A" >>
    /\ Len(MidsOf(stream, "B")) > 0
    /\ Len(MidsOf(stream, "A")) >= cfg.long_window


---------------------------------------------------------------------------
(* Claims about LIMIT orders and the generator (SpecLimit)                 *)

\* the tick of the on_market call of a step, and the states its loop went
\* through: one per iteration, then the state it ended in
CallMarket == Val(last_tick')
CallTick == tick_index'[CallMarket.symbol]
CallTrace == OnMarketOf(Self, CallMarket).trace

\* the entry the i-th iteration visited, and what the iteration did
VisitedEntry(tr, i) == Head(tr[i].q)
VisitFilled(tr, i) == tr[i + 1].nfills = tr[i].nfills + 1
VisitDrew(tr, i) == tr[i + 1].rng = RngAdvance(tr[i].rng) /\ tr[i + 1].rng # tr[i].rng
VisitRotatedUnchanged(tr, i) == tr[i + 1].q = Append(Tail(tr[i].q), Head(tr[i].q))
VisitLeftInPlace(tr, i) == tr[i + 1].q = tr[i].q

IsPricedLimit(p) == p.order.order_type = "LIMIT" /\ ~IsNone(p.order.limit_price)
LatencyEligible(p, tick) == tick - p.submitted_tick >= cfg.execution.micro.latency_events

\* BUY: limit >= ask, or >= mid when the tick has no ask; SELL: limit <= bid,
\* or <= mid when it has no bid
LimitTouchesTick(order, market) ==
    \/ /\ order.side = BUY
       /\ \/ ~IsNone(market.ask) /\ Val(order.limit_price) >= Val(market.ask)
          \/ IsNone(market.ask) /\ Val(order.limit_price) >= market.mid
    \/ /\ order.side = SELL
       /\ \/ ~IsNone(market.bid) /\ Val(order.limit_price) <= Val(market.bid)
          \/ IsNone(market.bid) /\ Val(order.limit_price) <= market.mid

\* u <= base_fill_probability x (1 - queue_ahead_fraction) for the draw u the
\* generator gives in state x
DrawPasses(x) ==
    LET b == cfg.execution.micro.base_fill_probability
        a == cfg.execution.micro.queue_ahead_fraction
    IN  RngValue(x) * b.d * a.d <= b.n * (a.d - a.n) * RngModulus

MayFill(tr, i) ==
    /\ tr[i].cap > 0
    /\ LimitTouchesTick(VisitedEntry(tr, i).order, CallMarket)
    /\ DrawPasses(tr[i].rng)

\* the trace is the one of the step: it ends in the queue, the generator and
\* the fills the call leaves
TraceOfStep(tr) ==
    /\ tr[Len(tr)].q = pending'[CallMarket.symbol]
    /\ tr[Len(tr)].rng = rng'
    /\ tr[Len(tr)].nfills = Len(fills')
    /\ tr[1].q = pending[CallMarket.symbol]
    /\ tr[1].rng = rng

\* exactly one draw per touching, eligible LIMIT order visited with capacity
\* left, none in any other iteration, none outside on_market
OneDrawPerTouchingVisit(tr) ==
    \A i \in 1..(Len(tr) - 1) :
       LET p == VisitedEntry(tr, i) IN
       IF IsPricedLimit(p) /\ LatencyEligible(p, CallTick) /\ tr[i].cap > 0
          /\ LimitTouchesTick(p.order, CallMarket)
       THEN VisitDrew(tr, i)
       ELSE tr[i + 1].rng = tr[i].rng

\* C31 as stated: a latency-eligible LIMIT order with a limit_price that an
\* on_market call visits is filled only if capacity remains, the limit
\* touches the tick and the draw passes; otherwise it is rotated to the tail
\* with remaining unchanged; one draw per touching eligible LIMIT order
\* visited with capacity left, none in any other case.
C31_LimitFillsOrRotates ==
    [][/\ IsOnMarketStep =>
            /\ TraceOfStep(CallTrace)
            /\ OneDrawPerTouchingVisit(CallTrace)
            /\ \A i \in 1..(Len(CallTrace) - 1) :
                  LET p == VisitedEntry(CallTrace, i) IN
                  (IsPricedLimit(p) /\ LatencyEligible(p, CallTick)) =>
                     /\ VisitFilled(CallTrace, i) => MayFill(CallTrace, i)
                     /\ ~MayFill(CallTrace, i) => VisitRotatedUnchanged(CallTrace, i)
       /\ IsSubmitStep => rng' = rng]_vars

\* C31, amended: as stated, except that an order visited when no capacity
\* remains is not rotated: the loop stops there, and the order keeps its
\* place in the queue and its remaining.
C31_LimitFillsRotatesOrStops ==
    [][/\ IsOnMarketStep =>
            /\ TraceOfStep(CallTrace)
            /\ OneDrawPerTouchingVisit(CallTrace)
            /\ \A i \in 1..(Len(CallTrace) - 1) :
                  LET p == VisitedEntry(CallTrace, i) IN
                  (IsPricedLimit(p) /\ LatencyEligible(p, CallTick)) =>
                     /\ VisitFilled(CallTrace, i) => MayFill(CallTrace, i)
                     /\ (~MayFill(CallTrace, i) /\ CallTrace[i].cap > 0)
                           => VisitRotatedUnchanged(CallTrace, i)
                     /\ CallTrace[i].cap <= 0
                           => VisitLeftInPlace(CallTrace, i) /\ i = Len(CallTrace) - 1
       /\ IsSubmitStep => rng' = rng]_vars

\* a touching LIMIT order drew, failed and was rotated: the generator moved,
\* nothing was filled, the order waits with its whole quantity
C31_Witness ==
    /\ ~IsNone(last_tick)
    /\ Val(last_tick).symbol = "A"
    /\ Len(pending["A"]) = 2
    /\ \A i \in 1..2 : /\ IsPricedLimit(pending["A"][i])
                       /\ pending["A"][i].remaining = pending["A"][i].order.quantity
                       /\ LimitTouchesTick(pending["A"][i].order, Val(last_tick))
                       /\ tick_index["A"] - pending["A"][i].submitted_tick
                            >= cfg.execution.micro.latency_events
    /\ Val(last_tick).volume # Some(0)
    /\ rng = RngAdvance(RngAdvance(NewRng(1)))
    /\ fills = << >>

\* a LIMIT order was filled after a draw
C31_WitnessFilled ==
    /\ next_id >= 1
    /\ submitted[1].order_type = "LIMIT"
    /\ order_fills[1] # << >>
    /\ rng # NewRng(1)


---------------------------------------------------------------------------
(* Claims about the order of the queue (SpecFifo)                          *)

\* the entry has not waited out its latency at the last tick of its symbol
StillIneligible(p) ==
    tick_index[p.order.symbol] - p.submitted_tick < cfg.execution.micro.latency_events

\* C32: the orders of a symbol that are still latency-ineligible appear in
\* the queue in their submission order, after any sequence of submit and
\* on_market calls.
C32_IneligibleKeepFifo ==
    \A sym \in Symbols :
       \A i, j \in 1..Len(pending[sym]) :
          (i < j /\ StillIneligible(pending[sym][i]) /\ StillIneligible(pending[sym][j]))
             => pending[sym][i].id < pending[sym][j].id


\* the tick of the first fill of the order id
FirstFillTick(id) == order_fills[id][1].timestamp

\* C36: of two MARKET orders of the same symbol, the one submitted earlier
\* receives its first fill no later than the one submitted later.
C36_EarlierOrderFillsFirst ==
    \A i, j \in 1..next_id :
       (/\ i < j
        /\ submitted[i].symbol = submitted[j].symbol
        /\ submitted[i].order_type = "MARKET"
        /\ submitted[j].order_type = "MARKET"
        /\ order_fills[j] # << >>)
          => (order_fills[i] # << >> /\ FirstFillTick(i) <= FirstFillTick(j))


---------------------------------------------------------------------------
(* Claims about the service of the queue (SpecStarve)                      *)

RECURSIVE FilledQty(_)
FilledQty(fs) == IF fs = << >> THEN 0 ELSE Head(fs).quantity + FilledQty(Tail(fs))

\* the order id is filled completely and is out of the queue
Completed(id) ==
    /\ id <= next_id
    /\ FilledQty(order_fills[id]) = submitted[id].quantity
    /\ ~Queued(id)

\* C37: while ticks of the symbol keep arriving, each with a capacity of at
\* least one unit, every submitted MARKET order of at least one unit is
\* eventually filled completely and removed from the queue.  (The first
\* conjunct says that the ticks of the model do keep arriving: the bound on
\* them is never what stops a tick that would find an order.)
C37_NoStarvation ==
    /\ [](pending["A"] # << >> => now < MaxStarveTicks)
    /\ \A id \in 1..MaxStarveOrders : (id <= next_id) ~> Completed(id)

\* the first order was filled in two parts, rotated behind orders submitted
\* after it, and every order is complete
C37_Witness ==
    /\ next_id = MaxStarveOrders
    /\ \A id \in 1..next_id : Completed(id)
    /\ Len(order_fills[1]) = 2
    /\ order_fills[1][2].timestamp > order_fills[2][1].timestamp
    /\ cfg.execution.micro.latency_events = 3

---------------------------------------------------------------------------
(* Claims about the summary of a run (SpecLoop)                            *)

\* C35: final_equity of the RunSummary is the equity of the portfolio at the
\* end of the stream, cash + sum of quantity x last_mid after the fills of
\* the last tick, and initial_cash when no tick was processed.
C35_FinalEquityIsEndEquity ==
    run.done =>
        Val(run.summary).final_equity =
            IF portfolio.equity_curve = << >> THEN Money(cfg.initial_cash)
            ELSE RecomputeEquity(portfolio)

---------------------------------------------------------------------------
(* Claims about two executions on one stream (SpecRerun)                   *)

\* the second execution has consumed the stream
RerunComplete == run.no = 2 /\ run.pos = Len(stream)

\* the field in which the second configuration differs from the first
SeedChanged == Val(twin.first).cfg.execution.rng_seed # cfg.execution.rng_seed
LatencyChanged ==
    Val(twin.first).cfg.execution.micro.latency_events # cfg.execution.micro.latency_events

\* C38: run_backtest submits MARKET orders only, and for these the RNG is
\* never consulted: two executions on the same stream whose configurations
\* differ in rng_seed only yield the same Fill sequence and the same final
\* portfolio.
C38_SeedIrrelevant ==
    /\ \A i \in 1..Len(submitted) : submitted[i].order_type = "MARKET"
    /\ rng = RngSeeded(cfg.execution.rng_seed)
    /\ (RerunComplete /\ SeedChanged) =>
          /\ twin.log = Val(twin.first).fills
          /\ portfolio = Val(twin.first).portfolio

\* both executions filled orders, one of them in parts, under seeds that
\* start the generator differently
C38_Witness ==
    /\ RerunComplete
    /\ SeedChanged
    /\ RngSeeded(cfg.execution.rng_seed) # RngSeeded(Val(twin.first).cfg.execution.rng_seed)
    /\ Len(twin.log) >= 2
    /\ \E i \in 1..Len(twin.log) : twin.log[i].quantity < cfg.trade_quantity
    /\ twin.log = Val(twin.first).fills

\* C39: in run_backtest no order is filled on the tick on which it was
\* submitted (on_market of a tick runs before the submits of that tick), so
\* the earliest fill of an order is on a later tick of its symbol, and the
\* executions with latency_events = 0 and latency_events = 1 yield the same
\* Fill sequence.
C39_NoSameTickFill ==
    /\ \A id \in 1..Len(order_fills) : \A i \in 1..Len(order_fills[id]) :
          order_fills[id][i].timestamp > submitted[id].timestamp
    /\ (RerunComplete /\ LatencyChanged) => twin.log = Val(twin.first).fills

\* the executions under latency 0 and latency 1 both filled an order on the
\* tick that followed its submission
C39_Witness ==
    /\ RerunComplete
    /\ LatencyChanged
    /\ twin.log # << >>
    /\ twin.log = Val(twin.first).fills
    /\ \E id \in 1..Len(order_fills) :
          /\ order_fills[id] # << >>
          /\ order_fills[id][1].timestamp = submitted[id].timestamp + 1

---------------------------------------------------------------------------
(* Claims about the risk controls over a run (SpecRisk)                    *)

\* C33: the per-symbol position cap holds over the whole run: after each
\* applied fill |position.quantity| <= max_position_per_symbol for every
\* symbol, given trade_quantity <= max_position_per_symbol, whatever the
\* latency, the capacity and the orders still pending when an order is
\* admitted.
C33_PositionCapHolds ==
    cfg.trade_quantity <= cfg.risk.max_position_per_symbol =>
        \A s \in Symbols : Abs(PositionOf(portfolio, s).quantity) <= cfg.risk.max_position_per_symbol

RECURSIVE LiquidationRemaining(_)
\* the total remaining quantity of the queued stop-loss liquidation orders
LiquidationRemaining(q) ==
    IF q = << >> THEN 0
    ELSE (IF Head(q).id \in twin THEN Head(q).remaining ELSE 0)
         + LiquidationRemaining(Tail(q))

\* C34: the stop loss never liquidates more than the position: for each
\* symbol the total remaining quantity of the queued liquidation orders is
\* at most the absolute position, also while the first liquidation order is
\* still pending on later ticks where the stop condition holds.
C34_NoOverLiquidation ==
    \A s \in Symbols : LiquidationRemaining(pending[s]) <= Abs(PositionOf(portfolio, s).quantity)

\* the last side the strategy recorded for a symbol is the last it emitted,
\* and it never emits the same side twice in a row
SignalsAlternate(symbol) ==
    /\ strategy.last_signal[symbol] =
          IF signal_log[symbol] = << >> THEN None
          ELSE Some(signal_log[symbol][Len(signal_log[symbol])])
    /\ \A i \in 1..(Len(signal_log[symbol]) - 1) :
          signal_log[symbol][i] # signal_log[symbol][i + 1]

\* the tick's signal was refused by can_place_order: no order was submitted
SignalRejectedNow == SignalledNow /\ submitted' = submitted

\* C40: a signal whose order can_place_order rejects is consumed, not
\* retried: the strategy has recorded its side as the last signal, no order
\* of the strategy is submitted on a tick without a new signal, and a new
\* signal, hence the next order of the strategy for the symbol, only follows
\* a crossover to the side opposite to the one recorded.
C40_RejectedSignalConsumed ==
    /\ [](\A s \in SeqToSet(cfg.symbols) : SignalsAlternate(s))
    /\ [][IsLoopBodyStep =>
            /\ SignalRejectedNow =>
                  /\ strategy'.last_signal[LoopTickOf.symbol] = Some(SignalSideNow)
                  /\ pending' = OnMarketOf(Self, LoopTickOf).pending
            /\ SignalledNow => strategy.last_signal[LoopTickOf.symbol] # Some(SignalSideNow)
            /\ (~SignalledNow /\ submitted' # submitted) =>
                  /\ ~IsNone(CheckStopLoss(PortfolioAtRiskCheck, LoopTickOf.symbol))
                  /\ strategy' = strategy]_vars

\* a BUY signal was rejected under the position cap, the ticks that followed
\* brought no order of the strategy until it crossed to SELL: the order of
\* the last tick
C40_Witness ==
    /\ ~IsNone(last_tick)
    /\ signal_log["A"] = << BUY, SELL, BUY, SELL >>
    /\ Len(submitted) - Cardinality(twin) = 3
    /\ next_id \notin twin
    /\ submitted[next_id].side = SELL
    /\ submitted[next_id].timestamp = Val(last_tick).timestamp
    /\ \A i \in 1..Len(submitted) :
          (i \notin twin /\ submitted[i].side = BUY) => i = 1

=============================================================================
